---- MODULE Spec2Model ----
(***************************************************************************)
(* TaskMaster Pro: the task store (taskService), the tag usage table       *)
(* (tagService) and the App component's task handlers (App.tsx), with the  *)
(* asynchronous refreshes between them.                                    *)
(*                                                                         *)
(* Three specifications share the definitions of the services:               *)
(*   Spec      the App: handlers, optimistic updates, writes and refreshes *)
(*             in flight, store and accounting failures;                   *)
(*   SpecSeq   the App used one handler at a time, no accounting failure;  *)
(*   SpecTags  tagService called directly, one call at a time, with a log  *)
(*             of what each call read and wrote.                           *)
(***************************************************************************)
EXTENDS Integers, Sequences, FiniteSets, TLC

VARIABLES
    configured,      \* getSupabase() returns a client (env vars are set)
    dbTasks,         \* table "tasks": id -> row, for the ids that have a row
    dbTags,          \* table "tags": name -> usage_count, for the names that have a row
    tasks,           \* App state `tasks`: the in-memory list
    taskToDelete,    \* App state `taskToDelete` (0 = null)
    deletingTaskId,  \* App state `deletingTaskId` (0 = null)
    calls,           \* handler invocations in flight, in the order they started
    clock,           \* the last value new Date() returned
    nextId,          \* number of ids crypto.randomUUID() has handed out
    notice,          \* the alert() the last handler step showed ("none": it showed none)
    tagLog,          \* SpecTags: the last tagService call, what it read and wrote
    dbSprints,       \* table "sprints": id -> row, for the ids that have a row
    sprints,         \* App state `sprints`: the in-memory list
    sprintFetches,   \* fetchTasks calls in flight (a set), for what they do to `sprints`
    config,          \* SprintView state `config` (the stored sprint configuration)
    nowDate,         \* the instant new Date() returns, in ticks
    isCreateOpen,    \* SprintView state `isCreateOpen`
    newStartDate,    \* SprintView state `newStartDate` (a datetime-local value)
    newEndDate,      \* SprintView state `newEndDate`
    nextSprintId,    \* number of ids handleCreateSprint's crypto.randomUUID() handed out
    viewMode,        \* App state `viewMode`
    searchQuery,     \* App state `searchQuery`
    allTasksPage,    \* App state `allTasksPage`
    allTasksStatus,  \* App state `allTasksStatus`
    allTasksPriority, \* App state `allTasksPriority`
    allTasksTags,    \* App state `allTasksTags`
    allTasksSprintId, \* App state `allTasksSprintId`, as [kind, id]
    selectedSprintId, \* TaskListView state `selectedSprintId` (0 = null)
    selectedTags,    \* TaskListView state `selectedTags`
    selectedStatus,  \* TaskListView state `selectedStatus` ("null" = null)
    selectedPriority, \* TaskListView state `selectedPriority` ("null" = null)
    isModalOpen,     \* App state `isModalOpen`
    editingTask,     \* App state `editingTask`, by its id (0 = null)
    title,           \* TaskModal state `title`
    scanTimer,       \* ticks since the due-task effect called setInterval
    scanTasks,       \* the `tasks` the installed checkDueTasks closes over
    scanRuns,        \* runs of checkDueTasks so far, up to MaxScans
    workers,         \* SpecRace: updateTask calls in flight, store request by request
    overflowModalState \* WeekView state `overflowModalState` (no tasks = null)

vars == <<configured, dbTasks, dbTags, tasks, taskToDelete, deletingTaskId,
          calls, clock, nextId, notice, tagLog,
          dbSprints, sprints, sprintFetches, config, nowDate, isCreateOpen,
          newStartDate, newEndDate, nextSprintId,
          viewMode, searchQuery, allTasksPage, allTasksStatus, allTasksPriority,
          allTasksTags, allTasksSprintId,
          selectedSprintId, selectedTags, selectedStatus, selectedPriority,
          isModalOpen, editingTask, title, scanTimer, scanTasks, scanRuns,
          workers, overflowModalState>>

\* the state of the sprint page
sprintState == <<dbSprints, sprints, sprintFetches, config, nowDate, isCreateOpen,
                 newStartDate, newEndDate, nextSprintId>>

\* the state of the task form
modalState == <<isModalOpen, editingTask, title>>

\* the state of the due-task effect
scanState == <<scanTimer, scanTasks, scanRuns>>

\* the state of the views other than the all-tasks table
viewState == <<selectedSprintId, selectedTags, selectedStatus, selectedPriority,
               modalState, scanState, workers, overflowModalState>>

\* the state of the all-tasks table, and of the other views
pageState == <<viewMode, searchQuery, allTasksPage, allTasksStatus,
               allTasksPriority, allTasksTags, allTasksSprintId, viewState>>

\* what the App's handlers leave alone: the state of the other specifications
offApp == <<tagLog, sprintState, pageState>>

(***************************************************************************)
(* Bounds                                                                  *)
(***************************************************************************)
MaxTasks == 1       \* Spec: ids handed out
MaxSeqTasks == 2    \* SpecSeq: ids handed out
MaxClock == 4       \* taskService calls made
MaxCalls == 2       \* handler invocations in flight at once
MaxWrites == 1      \* of these, awaiting their taskService call
MaxTagNames == 1    \* distinct tag names typed into the App's task forms
MaxTagInputs == 2   \* tag inputs typed into one task form
MaxDirectNames == 3 \* SpecTags: distinct tag names passed to tagService
MaxCount == 2       \* SpecTags: largest usage_count a call may produce

(***************************************************************************)
(* Strings are sequences of characters, so that trim() is computed.        *)
(***************************************************************************)
SP == " "

RECURSIVE TrimStart(_)
TrimStart(s) ==
    IF s # <<>> /\ Head(s) = SP THEN TrimStart(Tail(s)) ELSE s

RECURSIVE TrimEnd(_)
TrimEnd(s) ==
    IF s # <<>> /\ s[Len(s)] = SP THEN TrimEnd(SubSeq(s, 1, Len(s) - 1)) ELSE s

\* String.prototype.trim
Trim(s) == TrimEnd(TrimStart(s))

Range(s) == {s[i] : i \in DOMAIN s}

Includes(s, x) == \E i \in DOMAIN s : s[i] = x

\* Array.prototype.filter with the predicate "x is (not) in set S"
RECURSIVE FilterNotIn(_, _)
FilterNotIn(s, S) ==
    IF s = <<>> THEN <<>>
    ELSE IF Head(s) \in S THEN FilterNotIn(Tail(s), S)
         ELSE <<Head(s)>> \o FilterNotIn(Tail(s), S)

RECURSIVE SeqsUpTo(_, _)
SeqsUpTo(S, n) ==
    IF n = 0 THEN {<<>>}
    ELSE LET shorter == SeqsUpTo(S, n - 1)
         IN  shorter \cup {Append(q, x) : q \in shorter, x \in S}

(***************************************************************************)
(* The tag input of the task form (TaskModal): Enter adds the trimmed      *)
(* input unless it is empty or already in the list.                        *)
(***************************************************************************)
\* tag names, in the order the bounds admit them ("u"rgent, "b"ackend, u"i")
TagLetters == <<"u", "b", "i", "x", "y">>

\* what the user may type into a tag input: the first n names, bare and
\* padded with blanks, a blank and nothing
RawTagInputs(n) ==
    UNION {{<<TagLetters[k]>>, <<SP, TagLetters[k]>>, <<TagLetters[k], SP>>} :
               k \in 1 .. n}
    \cup {<<SP>>, <<>>}

AddTag(tags, tagInput) ==
    IF Trim(tagInput) # <<>> /\ ~Includes(tags, Trim(tagInput))
    THEN Append(tags, Trim(tagInput))
    ELSE tags

RECURSIVE BuildTags(_)
BuildTags(inputs) ==
    IF inputs = <<>> THEN <<>>
    ELSE AddTag(BuildTags(SubSeq(inputs, 1, Len(inputs) - 1)), inputs[Len(inputs)])

\* the tag lists a form can hold, over the first n names
FormTagListsOver(n) == {BuildTags(q) : q \in SeqsUpTo(RawTagInputs(n), MaxTagInputs)}

\* the tag lists of the App's task forms
FormTagLists == FormTagListsOver(MaxTagNames)

(***************************************************************************)
(* tagService.  A call works on the table `rows` and returns the new table *)
(* with a log.  `budget` is the number of loop iterations the call         *)
(* completes before a store call throws (NoFailure: none throws).          *)
(***************************************************************************)
NoFailure == Len(TagLetters) + 1

HasRow(rows, name) == name \in DOMAIN rows

PutRow(rows, name, count) ==
    [n \in DOMAIN rows \cup {name} |-> IF n = name THEN count ELSE rows[n]]

DeleteRow(rows, name) == [n \in DOMAIN rows \ {name} |-> rows[n]]

TagResult(rows, touched, done, threw) ==
    [rows |-> rows, touched |-> touched, done |-> done, threw |-> threw]

\* one iteration of the loop of incrementTagUsage
IncrementOne(rows, trimmedName) ==
    IF HasRow(rows, trimmedName)
    THEN PutRow(rows, trimmedName, rows[trimmedName] + 1)
    ELSE PutRow(rows, trimmedName, 1)

\* variant of DecrementOne that writes the count 0 instead of deleting the row
DecrementOne_KeepZero(rows, trimmedName) ==
    IF HasRow(rows, trimmedName)
    THEN LET old == rows[trimmedName]
         IN  PutRow(rows, trimmedName, IF old - 1 > 0 THEN old - 1 ELSE 0)
    ELSE rows

\* one iteration of the loop of decrementTagUsage
DecrementOne(rows, trimmedName) ==
    IF HasRow(rows, trimmedName)
    THEN LET old == rows[trimmedName]
             newCount == IF old - 1 > 0 THEN old - 1 ELSE 0
         IN  IF newCount = 0 THEN DeleteRow(rows, trimmedName)
             ELSE PutRow(rows, trimmedName, newCount)
    ELSE rows

RECURSIVE IncrementLoop(_, _, _, _, _)
IncrementLoop(rows, tagNames, budget, touched, done) ==
    IF tagNames = <<>> THEN TagResult(rows, touched, done, FALSE)
    ELSE IF budget = 0 THEN TagResult(rows, touched, done, TRUE)
    ELSE LET trimmedName == Trim(Head(tagNames))
         IN  IF trimmedName = <<>>
             THEN IncrementLoop(rows, Tail(tagNames), budget, touched, done)
             ELSE IncrementLoop(IncrementOne(rows, trimmedName), Tail(tagNames),
                                budget - 1, touched \cup {trimmedName},
                                Append(done, trimmedName))

incrementTagUsage(rows, tagNames, budget) ==
    IncrementLoop(rows, tagNames, budget, {}, <<>>)

RECURSIVE DecrementLoop(_, _, _, _, _)
DecrementLoop(rows, tagNames, budget, touched, done) ==
    IF tagNames = <<>> THEN TagResult(rows, touched, done, FALSE)
    ELSE IF budget = 0 THEN TagResult(rows, touched, done, TRUE)
    ELSE LET trimmedName == Trim(Head(tagNames))
         IN  IF trimmedName = <<>>
             THEN DecrementLoop(rows, Tail(tagNames), budget, touched, done)
             ELSE DecrementLoop(DecrementOne(rows, trimmedName), Tail(tagNames),
                                budget - 1, touched \cup {trimmedName},
                                Append(done, trimmedName))

decrementTagUsage(rows, tagNames, budget) ==
    DecrementLoop(rows, tagNames, budget, {}, <<>>)

\* variant of AddedTags without the filter: every new tag is incremented
AddedTags_All(oldTags, newTags) == newTags

\* the tags updateTagUsage passes to incrementTagUsage
AddedTags(oldTags, newTags) == FilterNotIn(newTags, Range(oldTags))

\* the tags updateTagUsage passes to decrementTagUsage
RemovedTags(oldTags, newTags) == FilterNotIn(oldTags, Range(newTags))

\* result: the table, the names read or written, the names incremented and
\* decremented (in order), and whether the call threw
updateTagUsage(rows, oldTags, newTags, budget) ==
    LET added == AddedTags(oldTags, newTags)
        removed == RemovedTags(oldTags, newTags)
        inc == incrementTagUsage(rows, added, budget)
        left == IF budget = NoFailure THEN NoFailure ELSE budget - Len(inc.done)
        dec == IF inc.threw THEN TagResult(inc.rows, {}, <<>>, TRUE)
               ELSE decrementTagUsage(inc.rows, removed, left)
    IN  [rows |-> dec.rows, touched |-> inc.touched \cup dec.touched,
         incs |-> inc.done, decs |-> dec.done, threw |-> dec.threw]

(***************************************************************************)
(* taskService.  Timestamps are clock values; Null is the null timestamp   *)
(* (and the null id of taskToDelete / deletingTaskId).                     *)
(***************************************************************************)
Null == 0

TODO == "TODO"
IN_PROGRESS == "IN_PROGRESS"
DONE == "DONE"
TaskStatus == {TODO, IN_PROGRESS, DONE}

Q1 == "Q1"
Q2 == "Q2"
Q3 == "Q3"
Q4 == "Q4"
Priority == {Q1, Q2, Q3, Q4}

HasTask(db, id) == id \in DOMAIN db

SvcResult(db, rows, result, acct) ==
    [db |-> db, rows |-> rows, result |-> result, acct |-> acct]

AcctOutcome(r) == IF r.threw THEN "threw" ELSE "ok"

\* variant of InsertedRow that never stamps completed_at
InsertedRow_NeverStamped(task, now) ==
    [id |-> task.id, status |-> task.status,
     created_at |-> task.createdAt,
     completed_at |-> Null,
     tags |-> task.tags, sprint_id |-> task.sprintId, due_date |-> task.dueDate,
     title |-> task.title, priority |-> task.priority]

\* the row createTask inserts
InsertedRow(task, now) ==
    [id |-> task.id, status |-> task.status,
     created_at |-> task.createdAt,
     completed_at |-> IF task.status = DONE THEN now ELSE Null,
     tags |-> task.tags, sprint_id |-> task.sprintId, due_date |-> task.dueDate,
     title |-> task.title, priority |-> task.priority]

\* variant of createTask without the try/catch around incrementTagUsage: an
\* accounting failure reaches the caller as a failure of createTask
createTask_AccountingThrows(conf, db, rows, task, now, reject, budget) ==
    IF ~conf THEN SvcResult(db, rows, "not_configured", "none")
    ELSE IF reject \/ HasTask(db, task.id) THEN SvcResult(db, rows, "rejected", "none")
    ELSE LET acct == incrementTagUsage(rows, task.tags, budget)
         IN  SvcResult([i \in DOMAIN db \cup {task.id} |->
                            IF i = task.id THEN InsertedRow(task, now) ELSE db[i]],
                       acct.rows, IF acct.threw THEN "rejected" ELSE "ok",
                       AcctOutcome(acct))

\* `reject`: the store answers the insert with an error (it does so by itself
\* for a primary key that exists)
createTask(conf, db, rows, task, now, reject, budget) ==
    IF ~conf THEN SvcResult(db, rows, "not_configured", "none")
    ELSE IF reject \/ HasTask(db, task.id) THEN SvcResult(db, rows, "rejected", "none")
    ELSE LET acct == incrementTagUsage(rows, task.tags, budget)
         IN  SvcResult([i \in DOMAIN db \cup {task.id} |->
                            IF i = task.id THEN InsertedRow(task, now) ELSE db[i]],
                       acct.rows, "ok", AcctOutcome(acct))

\* variant of CompletedAtFor that keeps the caller's completedAt on leaving DONE
CompletedAtFor_KeepOnExit(task, now) ==
    IF task.status = DONE
    THEN IF task.completedAt # Null THEN task.completedAt ELSE now
    ELSE task.completedAt

\* "Determine completed_at based on status"
CompletedAtFor(task, now) ==
    IF task.status = DONE
    THEN IF task.completedAt # Null THEN task.completedAt ELSE now
    ELSE Null

\* the row after updateTask's update ... eq('id', task.id)
UpdatedRow(row, task, now) ==
    [row EXCEPT !.status = task.status,
                !.completed_at = CompletedAtFor(task, now),
                !.tags = task.tags,
                !.sprint_id = task.sprintId,
                !.due_date = task.dueDate,
                !.title = task.title,
                !.priority = task.priority]

\* select tags + update + updateTagUsage; an update that matches no row is no error
updateTask(conf, db, rows, task, now, reject, budget) ==
    IF ~conf THEN SvcResult(db, rows, "not_configured", "none")
    ELSE LET oldTags == IF HasTask(db, task.id) THEN db[task.id].tags ELSE <<>>
         IN  IF reject THEN SvcResult(db, rows, "rejected", "none")
             ELSE LET acct == updateTagUsage(rows, oldTags, task.tags, budget)
                  IN  SvcResult([i \in DOMAIN db |->
                                     IF i = task.id THEN UpdatedRow(db[i], task, now)
                                     ELSE db[i]],
                                acct.rows, "ok", AcctOutcome(acct))

deleteTask(conf, db, rows, id, reject, budget) ==
    IF ~conf THEN SvcResult(db, rows, "not_configured", "none")
    ELSE LET tags == IF HasTask(db, id) THEN db[id].tags ELSE <<>>
         IN  IF reject THEN SvcResult(db, rows, "rejected", "none")
             ELSE LET acct == decrementTagUsage(rows, tags, budget)
                  IN  SvcResult([i \in DOMAIN db \ {id} |-> db[i]],
                                acct.rows, "ok", AcctOutcome(acct))

\* the row -> Task mapping of getTasks
RowToTask(row) ==
    [id |-> row.id, status |-> row.status, createdAt |-> row.created_at,
     completedAt |-> row.completed_at, tags |-> row.tags, dueDate |-> row.due_date,
     sprintId |-> row.sprint_id, title |-> row.title, priority |-> row.priority]

\* .order('created_at', { ascending: false })
RECURSIVE OrderByCreatedDesc(_, _)
OrderByCreatedDesc(db, ids) ==
    IF ids = {} THEN <<>>
    ELSE LET first == CHOOSE i \in ids :
                          \A j \in ids : db[j].created_at <= db[i].created_at
         IN  <<RowToTask(db[first])>> \o OrderByCreatedDesc(db, ids \ {first})

getTasks(db) == OrderByCreatedDesc(db, DOMAIN db)

(***************************************************************************)
(* Sprints.  An instant (a Date) is a number of ticks; a minute of the     *)
(* datetime-local inputs is TicksPerMinute ticks, a day MinutesPerDay      *)
(* minutes (the times of day a start time can name), day 0 a Sunday.       *)
(* A datetime-local value is a number of minutes, InvalidDate the value '' *)
(* of an input that was never filled or was cleared.                       *)
(***************************************************************************)
TicksPerMinute == 2
MinutesPerDay == 2
DaysPerWeek == 7
InvalidDate == -1

TicksPerDay == MinutesPerDay * TicksPerMinute

\* Date.prototype.getDay
GetDay(t) == (t \div TicksPerDay) % DaysPerWeek

\* start.setDate(start.getDate() + days)
AddDays(t, days) == t + days * TicksPerDay

\* start.setHours(targetHour, targetMinute, 0, 0), the time of day in minutes
SetHours(t, minuteOfDay) ==
    (t \div TicksPerDay) * TicksPerDay + minuteOfDay * TicksPerMinute

\* date-fns addWeeks
AddWeeks(t, weeks) == AddDays(t, weeks * DaysPerWeek)

\* format(d, "yyyy-MM-dd'T'HH:mm"): the minute the instant lies in
FormatMinute(t) == t \div TicksPerMinute

\* new Date(value) of a datetime-local value
ParseMinute(m) == IF m = InvalidDate THEN InvalidDate ELSE m * TicksPerMinute

PLANNING == "PLANNING"
ACTIVE == "ACTIVE"
COMPLETED == "COMPLETED"
SprintStatus == {PLANNING, ACTIVE, COMPLETED}

\* getSprintConfig's default: one week, Friday 00:00
DefaultConfig == [durationUnit |-> "week", startDay |-> 5, startTime |-> 0]

\* the row -> Sprint mapping of getSprints
RowToSprint(row) ==
    [id |-> row.id, startDate |-> row.start_date, endDate |-> row.end_date,
     status |-> row.status, createdAt |-> row.created_at]

\* .order('start_date', { ascending: false })
RECURSIVE OrderByStartDesc(_, _)
OrderByStartDesc(db, ids) ==
    IF ids = {} THEN <<>>
    ELSE LET first == CHOOSE i \in ids :
                          \A j \in ids : db[j].start_date <= db[i].start_date
         IN  <<RowToSprint(db[first])>> \o OrderByStartDesc(db, ids \ {first})

getSprints(db) == OrderByStartDesc(db, DOMAIN db)

\* openCreateModal: the instants `start` and `end`
DefaultStart(list, cfg, t) ==
    IF list # <<>>
    THEN list[1].endDate
    ELSE LET currentDay == GetDay(t)
             diff == (cfg.startDay + DaysPerWeek - currentDay) % DaysPerWeek
             daysToAdd == IF diff = 0 THEN 0 ELSE diff
         IN  SetHours(AddDays(t, daysToAdd), cfg.startTime)

\* variant of DefaultEnd that ignores durationUnit
DefaultEnd_OneWeek(start, cfg) == AddWeeks(start, 1)

DefaultEnd(start, cfg) ==
    AddWeeks(start, IF cfg.durationUnit = "week" THEN 1 ELSE 2)

\* the sprint page before anything happened on it
SprintIdle ==
    /\ dbSprints = <<>>
    /\ sprints = <<>>
    /\ sprintFetches = {}
    /\ config = DefaultConfig
    /\ nowDate = 0
    /\ isCreateOpen = FALSE
    /\ newStartDate = InvalidDate
    /\ newEndDate = InvalidDate
    /\ nextSprintId = 0

\* allTasksSprintId: 'ALL', 'UNASSIGNED' or the id of a sprint
ALL == "ALL"
UNASSIGNED == "UNASSIGNED"
UNFINISHED == "UNFINISHED"
AllSprints == [kind |-> ALL, id |-> 0]
Unassigned == [kind |-> UNASSIGNED, id |-> 0]
OfSprint(id) == [kind |-> "id", id |-> id]

\* no selection of TaskListView's single-choice filters (null)
NoSelection == "null"

\* the useState initial values of the other views
ViewIdle ==
    /\ selectedSprintId = Null
    /\ selectedTags = <<>>
    /\ selectedStatus = NoSelection
    /\ selectedPriority = NoSelection
    /\ isModalOpen = FALSE
    /\ editingTask = Null
    /\ title = <<>>
    /\ scanTimer = 0
    /\ scanTasks = <<>>
    /\ scanRuns = 0
    /\ workers = <<>>
    /\ overflowModalState = [day |-> 0, tasks |-> <<>>]

\* the useState initial values of the view and of the all-tasks table
PageIdle ==
    /\ viewMode = "inbox"
    /\ searchQuery = <<>>
    /\ allTasksPage = 1
    /\ allTasksStatus = ALL
    /\ allTasksPriority = ALL
    /\ allTasksTags = <<>>
    /\ allTasksSprintId = AllSprints
    /\ ViewIdle

ITEMS_PER_PAGE == 10

\* String.prototype.toLowerCase over the letters of titles and queries
LowerOf(ch) == IF ch = "A" THEN "a" ELSE IF ch = "B" THEN "b" ELSE ch
ToLowerCase(s) == [i \in 1 .. Len(s) |-> LowerOf(s[i])]

\* String.prototype.includes
StrIncludes(s, q) ==
    \E i \in 0 .. Len(s) - Len(q) : SubSeq(s, i + 1, i + Len(q)) = q

\* date-fns isSameDay
IsSameDay(a, b) == a \div TicksPerDay = b \div TicksPerDay

\* date-fns startOfWeek(d, { weekStartsOn: 1 }), as a day number
StartOfWeekDay(t) ==
    (t \div TicksPerDay) - ((GetDay(t) + DaysPerWeek - 1) % DaysPerWeek)

\* filteredTasks, 1: the search filter.  Descriptions are '' (the form's
\* default), which includes no non-empty query
SearchFiltered(list, query) ==
    IF query # <<>>
    THEN LET lower == ToLowerCase(query)
         IN  SelectSeq(list, LAMBDA t : StrIncludes(ToLowerCase(t.title), lower))
    ELSE list

\* variant of PassesView whose inbox holds the TODO tasks only
PassesView_InboxTodoOnly(t, mode) ==
    IF mode = "inbox" THEN t.status = TODO /\ t.dueDate = Null ELSE TRUE

\* filteredTasks, 2: the predicate of the view mode filter, `today` = nowDate
PassesView(t, mode) ==
    CASE mode = "inbox" -> t.status # DONE /\ t.dueDate = Null
      [] mode = "today" ->
            t.status # DONE /\ t.dueDate # Null /\ IsSameDay(t.dueDate, nowDate)
      [] mode = "tomorrow" ->
            t.status # DONE /\ t.dueDate # Null
                /\ IsSameDay(t.dueDate, AddDays(nowDate, 1))
      [] mode = "week" ->
            t.status # DONE /\ t.dueDate # Null
                /\ StartOfWeekDay(t.dueDate) = StartOfWeekDay(nowDate)
      [] mode = "month" -> t.status # DONE
      [] mode = "completed" -> t.status = DONE
      [] mode = "overdue" ->
            t.status # DONE /\ t.dueDate # Null /\ t.dueDate < nowDate
      [] OTHER -> TRUE

\* filteredTasks
filteredTasks(list, mode, query) ==
    SelectSeq(SearchFiltered(list, query), LAMBDA t : PassesView(t, mode))

\* variant of PassesTable in which a task passes when any one of the filters
\* that are set lets it pass
PassesTable_AnyGroup(t, status, priority, sprintId, tagsFilter) ==
    \/ status = ALL /\ priority = ALL /\ sprintId.kind = ALL /\ Len(tagsFilter) = 0
    \/ status # ALL /\ (IF status = UNFINISHED THEN t.status # DONE ELSE t.status = status)
    \/ priority # ALL /\ t.priority = priority
    \/ sprintId.kind # ALL /\ (IF sprintId.kind = UNASSIGNED THEN t.sprintId = Null
                               ELSE t.sprintId = sprintId.id)
    \/ Len(tagsFilter) > 0 /\ \E i \in DOMAIN tagsFilter : Includes(t.tags, tagsFilter[i])

\* the predicate of renderAllTasksView's filter
PassesTable(t, status, priority, sprintId, tagsFilter) ==
    /\ IF status = UNFINISHED THEN t.status # DONE
       ELSE ~(status # ALL /\ t.status # status)
    /\ ~(priority # ALL /\ t.priority # priority)
    /\ IF sprintId.kind # ALL
       THEN IF sprintId.kind = UNASSIGNED THEN t.sprintId = Null
            ELSE t.sprintId = sprintId.id
       ELSE TRUE
    /\ IF Len(tagsFilter) > 0
       THEN \E i \in DOMAIN tagsFilter : Includes(t.tags, tagsFilter[i])
       ELSE TRUE

\* renderAllTasksView, 1: `result` (the sort, 2, orders it and keeps its length)
TableResult(list, mode, query, status, priority, sprintId, tagsFilter) ==
    SelectSeq(filteredTasks(list, mode, query),
              LAMBDA t : PassesTable(t, status, priority, sprintId, tagsFilter))

\* Math.ceil(n / d) for n >= 0, d > 0
Ceil(n, d) == (n + d - 1) \div d

\* renderAllTasksView, 3: totalPages and displayedTasks
TotalPagesOf(res) == Ceil(Len(res), ITEMS_PER_PAGE)
DisplayedOf(res, page) ==
    SubSeq(res, (page - 1) * ITEMS_PER_PAGE + 1,
           IF page * ITEMS_PER_PAGE < Len(res) THEN page * ITEMS_PER_PAGE
           ELSE Len(res))

\* `result` and totalPages of the table as the App's state has them
tableResult ==
    TableResult(tasks, viewMode, searchQuery, allTasksStatus, allTasksPriority,
                allTasksSprintId, allTasksTags)
totalPages == TotalPagesOf(tableResult)
displayedTasks == DisplayedOf(tableResult, allTasksPage)

(***************************************************************************)
(* The App component.  A handler runs up to its first await in one step    *)
(* (the click), the awaited taskService call is one step (the write), and  *)
(* fetchTasks is two: the store answers getTasks, the answer arrives.      *)
(* A call in flight is a record                                            *)
(*   kind  "mount" | "create" | "update" | "toggle" | "delete"             *)
(*   pc    "write"    the taskService call is awaited                      *)
(*         "fetch"    fetchTasks has asked the store                       *)
(*         "respond"  the store has answered with `snap`                   *)
(*   path  "ok" | "revert": fetchTasks called after the write, or by catch *)
(*   task  the Task handed to taskService                                  *)
(*   old   the task's status before the call: in memory at the click, and  *)
(*         in the store once the taskService call has found a row          *)
(***************************************************************************)
NoTask == [id |-> Null, status |-> TODO, createdAt |-> Null,
           completedAt |-> Null, tags |-> <<>>, sprintId |-> Null, dueDate |-> Null,
           title |-> <<>>, priority |-> Q2]

Call(kind, pc, path, task, old, snap) ==
    [kind |-> kind, pc |-> pc, path |-> path, task |-> task, old |-> old,
     snap |-> snap]

RemoveAt(s, i) == SubSeq(s, 1, i - 1) \o SubSeq(s, i + 1, Len(s))

\* prev.map(t => t.id === id ? updatedTask : t)
MapReplace(list, updatedTask) ==
    [i \in DOMAIN list |-> IF list[i].id = updatedTask.id THEN updatedTask ELSE list[i]]

\* "Cycle: TODO -> IN_PROGRESS -> DONE -> TODO"
NextStatus(status) ==
    IF status = TODO THEN IN_PROGRESS
    ELSE IF status = IN_PROGRESS THEN DONE
    ELSE TODO

PendingWrites == Cardinality({i \in DOMAIN calls : calls[i].pc = "write"})

\* a handler may start: a call slot is free and the clock bound leaves room
\* for its write
CanStart ==
    /\ Len(calls) < MaxCalls
    /\ PendingWrites < MaxWrites
    /\ clock + PendingWrites < MaxClock



\* the title typed into the task forms of Spec
FormTitle == <<"a">>

\* the task handed to createTask by handleSaveTask (no id in taskData), from a
\* form with the priority left at Q2 and no sprint selected
NewTask(id, status, tags) ==
    [id |-> id, createdAt |-> id, status |-> status, completedAt |-> Null,
     tags |-> tags, sprintId |-> Null, title |-> FormTitle, priority |-> Q2,
     dueDate |-> Null]

\* { ...existingTask, ...taskData }: the form gives status and tags, never completedAt
MergedTask(existingTask, status, tags) ==
    [existingTask EXCEPT !.status = status, !.tags = tags]

\* the positions of the task `id` in a list
InMemory(list, id) == {k \in DOMAIN list : list[k].id = id}

\* { ...task, status: newStatus }
ToggledTask(task) == [task EXCEPT !.status = NextStatus(task.status)]

Init ==
    /\ configured \in BOOLEAN
    /\ dbTasks = <<>>
    /\ dbTags = <<>>
    /\ tasks = <<>>
    /\ taskToDelete = Null
    /\ deletingTaskId = Null
    /\ calls = IF configured
               THEN <<Call("mount", "fetch", "ok", NoTask, TODO, <<>>)>>
               ELSE <<>>
    /\ clock = 0
    /\ nextId = 0
    /\ notice = "none"
    /\ tagLog = <<>>
    /\ SprintIdle
    /\ PageIdle

\* handleSaveTask, taskData.id undefined, up to `await taskService.createTask`
SaveCreate(status, tags) ==
    /\ CanStart
    /\ LET newTask == NewTask(nextId + 1, status, tags)
       IN  /\ nextId' = nextId + 1
           /\ tasks' = <<newTask>> \o tasks
           /\ calls' = IF configured
                       THEN Append(calls,
                                   Call("create", "write", "ok", newTask, status, <<>>))
                       ELSE calls
    /\ notice' = "none"
    /\ UNCHANGED <<configured, dbTasks, dbTags, taskToDelete, deletingTaskId,
                   clock, offApp>>

\* handleSaveTask, taskData.id set, up to `await taskService.updateTask`
SaveUpdate(i, status, tags) ==
    /\ CanStart
    /\ i \in DOMAIN tasks
    /\ LET existingTask == tasks[i]
           updatedTask == MergedTask(existingTask, status, tags)
       IN  /\ tasks' = MapReplace(tasks, updatedTask)
           /\ calls' = IF configured
                       THEN Append(calls,
                                   Call("update", "write", "ok", updatedTask, existingTask.status, <<>>))
                       ELSE calls
    /\ notice' = "none"
    /\ UNCHANGED <<configured, dbTasks, dbTags, taskToDelete, deletingTaskId,
                   clock, nextId, offApp>>

\* handleStatusToggle(task) for a task on screen, up to `await taskService.updateTask`
StatusToggle(i) ==
    /\ CanStart
    /\ i \in DOMAIN tasks
    /\ LET task == tasks[i]
           updatedTask == ToggledTask(task)
       IN  /\ tasks' = MapReplace(tasks, updatedTask)
           /\ calls' = IF configured
                       THEN Append(calls,
                                   Call("toggle", "write", "ok", updatedTask, task.status, <<>>))
                       ELSE calls
    /\ notice' = "none"
    /\ UNCHANGED <<configured, dbTasks, dbTags, taskToDelete, deletingTaskId,
                   clock, nextId, offApp>>

\* requestDeleteTask(id) for a task on screen; the buttons are disabled while
\* a confirmation is open
RequestDelete(i) ==
    /\ i \in DOMAIN tasks
    /\ taskToDelete = Null
    /\ taskToDelete' = tasks[i].id
    /\ notice' = "none"
    /\ UNCHANGED <<configured, dbTasks, dbTags, tasks, deletingTaskId, calls,
                   clock, nextId, offApp>>

\* ConfirmModal onClose
CancelDelete ==
    /\ taskToDelete # Null
    /\ deletingTaskId = Null
    /\ taskToDelete' = Null
    /\ notice' = "none"
    /\ UNCHANGED <<configured, dbTasks, dbTags, tasks, deletingTaskId, calls,
                   clock, nextId, offApp>>

\* confirmDeleteTask up to `await taskService.deleteTask`; not configured:
\* the catch only warns and finally resets deletingTaskId
ConfirmDelete ==
    /\ CanStart
    /\ taskToDelete # Null
    /\ deletingTaskId = Null
    /\ IF configured
       THEN /\ deletingTaskId' = taskToDelete
            /\ calls' = Append(calls, Call("delete", "write", "ok",
                                           [NoTask EXCEPT !.id = taskToDelete],
                                           TODO, <<>>))
       ELSE UNCHANGED <<deletingTaskId, calls>>
    /\ notice' = "none"
    /\ UNCHANGED <<configured, dbTasks, dbTags, tasks, taskToDelete, clock,
                   nextId, offApp>>

\* what follows a taskService call of handleSaveTask / handleStatusToggle:
\* createTask resolved: the handler is done; updateTask resolved: await
\* fetchTasks(); rejected: the catch calls fetchTasks()
AfterWrite(c, i, result) ==
    IF result = "ok"
    THEN IF c.kind = "create" THEN RemoveAt(calls, i)
         ELSE [calls EXCEPT ![i].pc = "fetch",
                            ![i].old = IF HasTask(dbTasks, c.task.id)
                                       THEN dbTasks[c.task.id].status ELSE @]
    ELSE [calls EXCEPT ![i].pc = "fetch", ![i].path = "revert"]

\* the awaited createTask settles
CreateWrite(i, reject, budget) ==
    /\ i \in DOMAIN calls
    /\ calls[i].kind = "create" /\ calls[i].pc = "write"
    /\ LET c == calls[i]
           r == createTask(configured, dbTasks, dbTags, c.task, clock + 1, reject, budget)
       IN  /\ dbTasks' = r.db
           /\ dbTags' = r.rows
           /\ calls' = AfterWrite(c, i, r.result)
    /\ clock' = clock + 1
    /\ notice' = "none"
    /\ UNCHANGED <<configured, tasks, taskToDelete, deletingTaskId, nextId, offApp>>

\* the awaited updateTask settles (handleSaveTask and handleStatusToggle)
UpdateWrite(i, reject, budget) ==
    /\ i \in DOMAIN calls
    /\ calls[i].kind \in {"update", "toggle"} /\ calls[i].pc = "write"
    /\ LET c == calls[i]
           r == updateTask(configured, dbTasks, dbTags, c.task, clock + 1, reject, budget)
       IN  /\ dbTasks' = r.db
           /\ dbTags' = r.rows
           /\ calls' = AfterWrite(c, i, r.result)
    /\ clock' = clock + 1
    /\ notice' = "none"
    /\ UNCHANGED <<configured, tasks, taskToDelete, deletingTaskId, nextId, offApp>>

\* the awaited deleteTask settles: resolved: await fetchTasks(); rejected:
\* alert, and finally resets deletingTaskId
DeleteWrite(i, reject, budget) ==
    /\ i \in DOMAIN calls
    /\ calls[i].kind = "delete" /\ calls[i].pc = "write"
    /\ LET c == calls[i]
           r == deleteTask(configured, dbTasks, dbTags, c.task.id, reject, budget)
       IN  /\ dbTasks' = r.db
           /\ dbTags' = r.rows
           /\ IF r.result = "ok"
              THEN /\ calls' = [calls EXCEPT ![i].pc = "fetch"]
                   /\ UNCHANGED deletingTaskId
              ELSE /\ calls' = RemoveAt(calls, i)
                   /\ deletingTaskId' = Null
           /\ notice' = IF r.result = "rejected" THEN "delete_failed" ELSE "none"
    /\ clock' = clock + 1
    /\ UNCHANGED <<configured, tasks, taskToDelete, nextId, offApp>>

\* variant of AfterFetch without the finally block
AfterFetch_NoFinally(c) ==
    IF c.kind = "delete"
    THEN taskToDelete' = Null /\ UNCHANGED deletingTaskId
    ELSE UNCHANGED <<taskToDelete, deletingTaskId>>

\* confirmDeleteTask after `await fetchTasks()`: close the confirmation, finally
AfterFetch(c) ==
    IF c.kind = "delete"
    THEN taskToDelete' = Null /\ deletingTaskId' = Null
    ELSE UNCHANGED <<taskToDelete, deletingTaskId>>

\* the store answers the getTasks of a fetchTasks
FetchRead(i) ==
    /\ i \in DOMAIN calls
    /\ calls[i].pc = "fetch"
    /\ calls' = [calls EXCEPT ![i].pc = "respond", ![i].snap = getTasks(dbTasks)]
    /\ notice' = "none"
    /\ UNCHANGED <<configured, dbTasks, dbTags, tasks, taskToDelete, deletingTaskId,
                   clock, nextId, offApp>>

\* a request of fetchTasks fails: its catch logs, `tasks` is not set
FetchFail(i) ==
    /\ i \in DOMAIN calls
    /\ calls[i].pc \in {"fetch", "respond"}
    /\ calls' = RemoveAt(calls, i)
    /\ AfterFetch(calls[i])
    /\ notice' = "none"
    /\ UNCHANGED <<configured, dbTasks, dbTags, tasks, clock, nextId, offApp>>

\* the answers arrive: setTasks(tasksData)
FetchDeliver(i) ==
    /\ i \in DOMAIN calls
    /\ calls[i].pc = "respond"
    /\ tasks' = calls[i].snap
    /\ calls' = RemoveAt(calls, i)
    /\ AfterFetch(calls[i])
    /\ notice' = "none"
    /\ UNCHANGED <<configured, dbTasks, dbTags, clock, nextId,
                   offApp>>

\* where the accounting call of a taskService call may throw
Budgets == (0 .. MaxTagNames - 1) \cup {NoFailure}

\* the user's actions, with at most maxTasks ids handed out
Click(maxTasks) ==
    \/ /\ nextId < maxTasks
       /\ \E status \in TaskStatus, tags \in FormTagLists : SaveCreate(status, tags)
    \/ \E i \in 1 .. maxTasks, status \in TaskStatus, tags \in FormTagLists :
           SaveUpdate(i, status, tags)
    \/ \E i \in 1 .. maxTasks : StatusToggle(i)
    \/ ConfirmDelete

\* the awaited taskService call of a handler settles
Write(budgets) ==
    \/ \E i \in 1 .. MaxCalls, reject \in BOOLEAN, budget \in budgets :
           CreateWrite(i, reject, budget)
    \/ \E i \in 1 .. MaxCalls, reject \in BOOLEAN, budget \in budgets :
           UpdateWrite(i, reject, budget)
    \/ \E i \in 1 .. MaxCalls, reject \in BOOLEAN, budget \in budgets :
           DeleteWrite(i, reject, budget)

\* the steps of fetchTasks, and the confirmation dialog
Rest(maxTasks) ==
    \/ \E i \in 1 .. maxTasks : RequestDelete(i)
    \/ CancelDelete
    \/ \E i \in 1 .. MaxCalls : FetchRead(i)
    \/ \E i \in 1 .. MaxCalls : FetchFail(i)
    \/ \E i \in 1 .. MaxCalls : FetchDeliver(i)

Next == Click(MaxTasks) \/ Write(Budgets) \/ Rest(MaxTasks)

Spec == Init /\ [][Next]_vars

\* one handler at a time: a handler starts when no call is in flight, and no
\* accounting call throws
SeqNext ==
    \/ calls = <<>> /\ Click(MaxSeqTasks)
    \/ Write({NoFailure})
    \/ Rest(MaxSeqTasks)

SpecSeq == Init /\ [][SeqNext]_vars

\* the App with a configured store where nothing fails: no write is rejected,
\* no accounting call throws, no fetchTasks fails
OkInit == Init /\ configured

OkNext ==
    \/ Click(MaxTasks)
    \/ \E i \in 1 .. MaxCalls : CreateWrite(i, FALSE, NoFailure)
    \/ \E i \in 1 .. MaxCalls : UpdateWrite(i, FALSE, NoFailure)
    \/ \E i \in 1 .. MaxCalls : DeleteWrite(i, FALSE, NoFailure)
    \/ \E i \in 1 .. MaxTasks : RequestDelete(i)
    \/ CancelDelete
    \/ \E i \in 1 .. MaxCalls : FetchRead(i)
    \/ \E i \in 1 .. MaxCalls : FetchDeliver(i)

SpecOk == OkInit /\ [][OkNext]_vars

(***************************************************************************)
(* SpecTags: tagService called directly.  tagLog records the last call:    *)
(* its arguments, the table before it, the names it incremented and        *)
(* decremented, the names whose rows it read or wrote, whether it threw.   *)
(* No call throws here: what a throwing call leaves behind is what the     *)
(* same call on a shorter list leaves behind.                              *)
(***************************************************************************)
DirectTagLists == FormTagListsOver(MaxDirectNames)

TagLog(op, old, new, before, incs, decs, touched, threw) ==
    [op |-> op, old |-> old, new |-> new, before |-> before, incs |-> incs,
     decs |-> decs, touched |-> touched, threw |-> threw]

WithinCount(rows) == \A n \in DOMAIN rows : rows[n] <= MaxCount

appState == <<configured, dbTasks, tasks, taskToDelete, deletingTaskId, calls,
              clock, nextId, notice>>

InitTags ==
    /\ configured = TRUE
    /\ dbTasks = <<>>
    /\ dbTags = <<>>
    /\ tasks = <<>>
    /\ taskToDelete = Null
    /\ deletingTaskId = Null
    /\ calls = <<>>
    /\ clock = 0
    /\ nextId = 0
    /\ notice = "none"
    /\ tagLog = TagLog("none", <<>>, <<>>, <<>>, <<>>, <<>>, {}, FALSE)
    /\ SprintIdle
    /\ PageIdle

TagIncrement(tagNames) ==
    LET r == incrementTagUsage(dbTags, tagNames, NoFailure)
    IN  /\ WithinCount(r.rows)
        /\ dbTags' = r.rows
        /\ tagLog' = TagLog("increment", <<>>, tagNames, dbTags, r.done, <<>>,
                            r.touched, r.threw)
        /\ UNCHANGED <<appState, sprintState, pageState>>

TagDecrement(tagNames) ==
    LET r == decrementTagUsage(dbTags, tagNames, NoFailure)
    IN  /\ dbTags' = r.rows
        /\ tagLog' = TagLog("decrement", tagNames, <<>>, dbTags, <<>>, r.done,
                            r.touched, r.threw)
        /\ UNCHANGED <<appState, sprintState, pageState>>

TagUpdate(oldTags, newTags) ==
    LET r == updateTagUsage(dbTags, oldTags, newTags, NoFailure)
    IN  /\ WithinCount(r.rows)
        /\ dbTags' = r.rows
        /\ tagLog' = TagLog("update", oldTags, newTags, dbTags, r.incs, r.decs,
                            r.touched, r.threw)
        /\ UNCHANGED <<appState, sprintState, pageState>>

TagsNext ==
    \/ \E tagNames \in DirectTagLists : TagIncrement(tagNames)
    \/ \E tagNames \in DirectTagLists : TagDecrement(tagNames)
    \/ \E oldTags \in DirectTagLists, newTags \in DirectTagLists :
           TagUpdate(oldTags, newTags)

SpecTags == InitTags /\ [][TagsNext]_vars

(***************************************************************************)
(* SpecWindow: the default window of the create form (openCreateModal),    *)
(* for every configuration, instant of the week and list of prior sprints. *)
(***************************************************************************)
MaxPriorSprints == 2   \* SpecWindow: sprints stored before the form opens
MaxPriorMinute == 2    \* SpecWindow: latest minute a prior sprint starts or ends

\* the task handlers' state, left alone by the sprint page
taskState == <<configured, dbTasks, dbTags, tasks, taskToDelete, deletingTaskId,
               calls, clock, nextId, tagLog, pageState>>

\* the task list before anything happened, with a configured store
AppIdle ==
    /\ configured = TRUE
    /\ dbTasks = <<>>
    /\ dbTags = <<>>
    /\ tasks = <<>>
    /\ taskToDelete = Null
    /\ deletingTaskId = Null
    /\ calls = <<>>
    /\ clock = 0
    /\ nextId = 0
    /\ notice = "none"
    /\ tagLog = <<>>
    /\ PageIdle

\* SprintConfig: durationUnit, startDay 0 (Sun) - 6 (Sat), startTime
Configs ==
    [durationUnit : {"week", "2weeks"},
     startDay : 0 .. DaysPerWeek - 1,
     startTime : 0 .. MinutesPerDay - 1]

\* the sprint handleCreateSprint builds from the form
NewSprint(id, startMinute, endMinute, createdAt) ==
    [id |-> id, startDate |-> ParseMinute(startMinute),
     endDate |-> ParseMinute(endMinute), status |-> PLANNING,
     createdAt |-> createdAt]

\* the row createSprint inserts
SprintRow(sprint) ==
    [id |-> sprint.id, start_date |-> sprint.startDate,
     end_date |-> sprint.endDate, status |-> sprint.status,
     created_at |-> sprint.createdAt]

\* tables of sprints created through the form
PriorTables ==
    UNION {[1 .. n -> {SprintRow(NewSprint(0, a, b, 0)) :
                           a \in 0 .. MaxPriorMinute, b \in 0 .. MaxPriorMinute}] :
               n \in 0 .. MaxPriorSprints}

WindowInit ==
    /\ AppIdle
    /\ config \in Configs
    /\ nowDate \in 0 .. DaysPerWeek * TicksPerDay - 1
    /\ \E t \in PriorTables :
           dbSprints = [i \in DOMAIN t |-> [t[i] EXCEPT !.id = i]]
    /\ sprints = getSprints(dbSprints)
    /\ sprintFetches = {}
    /\ isCreateOpen = FALSE
    /\ newStartDate = InvalidDate
    /\ newEndDate = InvalidDate
    /\ nextSprintId = Cardinality(DOMAIN dbSprints)

\* openCreateModal ("新建冲刺")
OpenCreateModal ==
    /\ ~isCreateOpen
    /\ LET start == DefaultStart(sprints, config, nowDate)
           end == DefaultEnd(start, config)
       IN  /\ newStartDate' = FormatMinute(start)
           /\ newEndDate' = FormatMinute(end)
    /\ isCreateOpen' = TRUE
    /\ notice' = "none"
    /\ UNCHANGED <<taskState, dbSprints, sprints, sprintFetches, config, nowDate,
                   nextSprintId>>

\* the form's cancel button: setIsCreateOpen(false)
CloseCreate ==
    /\ isCreateOpen
    /\ isCreateOpen' = FALSE
    /\ notice' = "none"
    /\ UNCHANGED <<taskState, dbSprints, sprints, sprintFetches, config, nowDate,
                   newStartDate, newEndDate, nextSprintId>>

WindowNext == OpenCreateModal \/ CloseCreate

SpecWindow == WindowInit /\ [][WindowNext]_vars

(***************************************************************************)
(* SpecSprint: the sprint page.  A handler of SprintView is one step up to *)
(* its onSprintUpdate(); the fetchTasks that call starts is two more: the  *)
(* store answers getSprints, the answer arrives.  Refresh is a fetchTasks  *)
(* started elsewhere (the mount effect, a task handler, the refresh        *)
(* button).  The fetches in flight are a set of records [pc, snap].         *)
(***************************************************************************)
MaxSprints == 1        \* SpecSprint: sprints created
MaxNow == 1            \* SpecSprint: ticks that pass
MaxSprintFetches == 2  \* SpecSprint: fetchTasks calls in flight at once
MaxEditMinute == 0     \* SpecSprint: latest minute typed into the create form
MaxSprintTasks == 1    \* SpecSprint: tasks saved into a sprint

\* what the user may leave in a datetime-local input of the create form
EditMinutes == (0 .. MaxEditMinute) \cup {InvalidDate}

HasSprint(db, id) == id \in DOMAIN db

\* sprintService.createSprint; `reject`: the store answers with an error
createSprint(db, sprint, reject) ==
    IF reject \/ HasSprint(db, sprint.id) THEN [db |-> db, result |-> "rejected"]
    ELSE [db |-> [i \in DOMAIN db \cup {sprint.id} |->
                      IF i = sprint.id THEN SprintRow(sprint) ELSE db[i]],
          result |-> "ok"]

\* sprintService.updateSprint: update ... eq('id', sprint.id)
updateSprint(db, sprint, reject) ==
    IF reject THEN [db |-> db, result |-> "rejected"]
    ELSE [db |-> [i \in DOMAIN db |->
                      IF i = sprint.id
                      THEN [db[i] EXCEPT !.start_date = sprint.startDate,
                                         !.end_date = sprint.endDate,
                                         !.status = sprint.status]
                      ELSE db[i]],
          result |-> "ok"]

\* sprintService.deleteSprint: delete ... eq('id', id)
deleteSprint(db, id, reject) ==
    IF reject THEN [db |-> db, result |-> "rejected"]
    ELSE [db |-> [i \in DOMAIN db \ {id} |-> db[i]], result |-> "ok"]

\* what a fetchTasks holds before the store answered
NoSnap == [tasks |-> <<>>, sprints |-> <<>>]

\* onSprintUpdate(): fetchTasks is called and not awaited
OnSprintUpdate == sprintFetches \cup {[pc |-> "fetch", snap |-> NoSnap]}

\* the task handlers' state that the sprint page's refreshes leave alone too
taskRest == <<configured, dbTags, taskToDelete, deletingTaskId, calls, clock,
              nextId, tagLog, pageState>>

SprintInit ==
    /\ AppIdle
    /\ SprintIdle

\* time passes
Tick ==
    /\ nowDate < MaxNow
    /\ nowDate' = nowDate + 1
    /\ UNCHANGED <<taskState, notice, dbSprints, sprints, sprintFetches, config,
                   isCreateOpen, newStartDate, newEndDate, nextSprintId>>

\* the start input of the create form: setNewStartDate(e.target.value)
EditStart(m) ==
    /\ isCreateOpen
    /\ newStartDate' = m
    /\ notice' = "none"
    /\ UNCHANGED <<taskState, dbSprints, sprints, sprintFetches, config, nowDate,
                   isCreateOpen, newEndDate, nextSprintId>>

\* the end input of the create form: setNewEndDate(e.target.value)
EditEnd(m) ==
    /\ isCreateOpen
    /\ newEndDate' = m
    /\ notice' = "none"
    /\ UNCHANGED <<taskState, dbSprints, sprints, sprintFetches, config, nowDate,
                   isCreateOpen, newStartDate, nextSprintId>>

\* handleCreateSprint: new Date('').toISOString() throws, as does a rejected
\* createSprint; the catch alerts and the form stays open
CreateSprint(reject) ==
    /\ isCreateOpen
    /\ nextSprintId < MaxSprints
    /\ Cardinality(sprintFetches) < MaxSprintFetches
    /\ IF newStartDate = InvalidDate \/ newEndDate = InvalidDate
       THEN /\ notice' = "create_sprint_failed"
            /\ UNCHANGED <<dbSprints, sprintFetches, isCreateOpen, nextSprintId>>
       ELSE LET sprint == NewSprint(nextSprintId + 1, newStartDate, newEndDate, nowDate)
                r == createSprint(dbSprints, sprint, reject)
            IN  /\ nextSprintId' = nextSprintId + 1
                /\ dbSprints' = r.db
                /\ IF r.result = "ok"
                   THEN /\ sprintFetches' = OnSprintUpdate
                        /\ isCreateOpen' = FALSE
                        /\ notice' = "none"
                   ELSE /\ notice' = "create_sprint_failed"
                        /\ UNCHANGED <<sprintFetches, isCreateOpen>>
    /\ UNCHANGED <<taskState, sprints, config, nowDate, newStartDate, newEndDate>>

\* the status button of the k-th sprint on screen: "启动冲刺" unless the sprint
\* shows ACTIVE, then "完成冲刺"; none on a COMPLETED sprint.
\* handleStatusChange has no catch: a rejection ends the handler
SprintStatusChange(k, reject) ==
    /\ k \in DOMAIN sprints
    /\ sprints[k].status # COMPLETED
    /\ Cardinality(sprintFetches) < MaxSprintFetches
    /\ LET sprint == sprints[k]
           status == IF sprint.status = ACTIVE THEN COMPLETED ELSE ACTIVE
           updated == [sprint EXCEPT !.status = status]
           r == updateSprint(dbSprints, updated, reject)
       IN  /\ dbSprints' = r.db
           /\ sprintFetches' = IF r.result = "ok" THEN OnSprintUpdate ELSE sprintFetches
    /\ notice' = "none"
    /\ UNCHANGED <<taskState, sprints, config, nowDate, isCreateOpen, newStartDate,
                   newEndDate, nextSprintId>>

\* handleSaveTask for a new task with the k-th sprint picked in the task form
\* (status, priority and tags left at the form's defaults), and its createTask
\* accepted by the store
SaveTaskInSprint(k) ==
    /\ k \in DOMAIN sprints
    /\ nextId < MaxSprintTasks
    /\ LET newTask == [NewTask(nextId + 1, TODO, <<>>) EXCEPT !.sprintId = sprints[k].id]
           r == createTask(configured, dbTasks, dbTags, newTask, clock, FALSE, NoFailure)
       IN  /\ nextId' = nextId + 1
           /\ tasks' = <<newTask>> \o tasks
           /\ dbTasks' = r.db
           /\ dbTags' = r.rows
    /\ notice' = "none"
    /\ UNCHANGED <<configured, taskToDelete, deletingTaskId, calls, clock, tagLog,
                   pageState, sprintState>>

\* variant of SprintDelete in which the store removes the sprint's tasks with
\* the sprint (a cascading foreign key on tasks.sprint_id)
SprintDelete_Cascade(k, reject) ==
    /\ k \in DOMAIN sprints
    /\ Cardinality(sprintFetches) < MaxSprintFetches
    /\ LET r == deleteSprint(dbSprints, sprints[k].id, reject)
       IN  /\ dbSprints' = r.db
           /\ dbTasks' = IF r.result = "ok"
                         THEN [i \in {j \in DOMAIN dbTasks :
                                          dbTasks[j].sprint_id # sprints[k].id}
                                   |-> dbTasks[i]]
                         ELSE dbTasks
           /\ sprintFetches' = IF r.result = "ok" THEN OnSprintUpdate ELSE sprintFetches
    /\ notice' = "none"
    /\ UNCHANGED <<taskRest, tasks, sprints, config, nowDate, isCreateOpen,
                   newStartDate, newEndDate, nextSprintId>>

\* handleDeleteSprint with the confirm() accepted
SprintDelete(k, reject) ==
    /\ k \in DOMAIN sprints
    /\ Cardinality(sprintFetches) < MaxSprintFetches
    /\ LET r == deleteSprint(dbSprints, sprints[k].id, reject)
       IN  /\ dbSprints' = r.db
           /\ dbTasks' = dbTasks
           /\ sprintFetches' = IF r.result = "ok" THEN OnSprintUpdate ELSE sprintFetches
    /\ notice' = "none"
    /\ UNCHANGED <<taskRest, tasks, sprints, config, nowDate, isCreateOpen,
                   newStartDate, newEndDate, nextSprintId>>

\* a fetchTasks started elsewhere
Refresh ==
    /\ Cardinality(sprintFetches) < MaxSprintFetches
    /\ sprintFetches' = OnSprintUpdate
    /\ notice' = "none"
    /\ UNCHANGED <<taskState, dbSprints, sprints, config, nowDate, isCreateOpen,
                   newStartDate, newEndDate, nextSprintId>>

\* the store answers the getTasks and getSprints of a fetchTasks
SprintFetchRead(f) ==
    /\ f \in sprintFetches
    /\ f.pc = "fetch"
    /\ sprintFetches' = (sprintFetches \ {f})
                            \cup {[pc |-> "respond",
                                   snap |-> [tasks |-> getTasks(dbTasks),
                                             sprints |-> getSprints(dbSprints)]]}
    /\ notice' = "none"
    /\ UNCHANGED <<taskState, dbSprints, sprints, config, nowDate, isCreateOpen,
                   newStartDate, newEndDate, nextSprintId>>

\* the answers arrive: setTasks(tasksData), setSprints(sprintsData)
SprintFetchDeliver(f) ==
    /\ f \in sprintFetches
    /\ f.pc = "respond"
    /\ tasks' = f.snap.tasks
    /\ sprints' = f.snap.sprints
    /\ sprintFetches' = sprintFetches \ {f}
    /\ notice' = "none"
    /\ UNCHANGED <<taskRest, dbTasks, dbSprints, config, nowDate, isCreateOpen,
                   newStartDate, newEndDate, nextSprintId>>

\* a request of fetchTasks fails: its catch logs, `sprints` is not set
SprintFetchFail(f) ==
    /\ f \in sprintFetches
    /\ sprintFetches' = sprintFetches \ {f}
    /\ notice' = "none"
    /\ UNCHANGED <<taskState, dbSprints, sprints, config, nowDate, isCreateOpen,
                   newStartDate, newEndDate, nextSprintId>>

SprintNext ==
    \/ Tick
    \/ OpenCreateModal
    \/ CloseCreate
    \/ \E m \in EditMinutes : EditStart(m)
    \/ \E m \in EditMinutes : EditEnd(m)
    \/ \E reject \in BOOLEAN : CreateSprint(reject)
    \/ \E k \in 1 .. MaxSprints, reject \in BOOLEAN : SprintStatusChange(k, reject)
    \/ \E k \in 1 .. MaxSprints, reject \in BOOLEAN : SprintDelete(k, reject)
    \/ \E k \in 1 .. MaxSprints : SaveTaskInSprint(k)
    \/ Refresh
    \/ \E f \in sprintFetches : SprintFetchRead(f)
    \/ \E f \in sprintFetches : SprintFetchDeliver(f)
    \/ \E f \in sprintFetches : SprintFetchFail(f)

SpecSprint == SprintInit /\ [][SprintNext]_vars

(***************************************************************************)
(* SpecPage: the all-tasks table.  The store holds tasks saved through the *)
(* task form and one sprint, and the App has fetched them.  Each handler   *)
(* of the toolbar, the pagination buttons, the navigation, the search box  *)
(* and onViewSprintTasks is one step; deleting a task from the table is    *)
(* one step up to the arrival of its refresh.                              *)
(***************************************************************************)
MaxPageTasks == 12     \* SpecPage: tasks in the store at the start
MaxPageDeletes == 1    \* SpecPage: tasks deleted from the table

\* the i-th task saved through the task form
PageTask(i) ==
    [id |-> i, createdAt |-> i,
     status |-> IF i % 3 = 1 THEN TODO ELSE IF i % 3 = 2 THEN IN_PROGRESS ELSE DONE,
     completedAt |-> Null,
     tags |-> IF i <= ITEMS_PER_PAGE + 1 THEN <<<<TagLetters[1]>>>> ELSE <<>>,
     sprintId |-> IF i >= 2 THEN 1 ELSE Null, dueDate |-> Null,
     title |-> IF i <= ITEMS_PER_PAGE + 1 THEN <<"A">> ELSE <<"b">>,
     priority |-> IF i % 2 = 0 THEN Q1 ELSE Q2]

\* the numbers of tasks at the start: none, one more than a page, MaxPageTasks
PageCounts == {0, ITEMS_PER_PAGE + 1, MaxPageTasks}

\* table "tasks" after createTask of the first n tasks
PageRows(n) == [i \in 1 .. n |-> InsertedRow(PageTask(i), i)]

RECURSIVE PageTagRows(_)
\* table "tags" after the incrementTagUsage of those createTask calls
PageTagRows(n) ==
    IF n = 0 THEN <<>>
    ELSE incrementTagUsage(PageTagRows(n - 1), PageTask(n).tags, NoFailure).rows

\* what may be typed into the search box
SearchQueries == {<<>>, <<"a">>, <<"B">>}

\* the buttons of the sidebar
NavModes == {"dashboard", "sprint", "inbox", "task-list", "calendar", "all", "settings"}

\* the table is on screen
TableShown == viewMode = "all" \/ viewMode = "overdue"

\* the names of the App's `tags`, as fetchTasks read them
TagNames == DOMAIN dbTags

PageInit ==
    /\ configured = TRUE
    /\ \E n \in PageCounts :
           /\ dbTasks = PageRows(n)
           /\ dbTags = PageTagRows(n)
           /\ nextId = n
    /\ tasks = getTasks(dbTasks)
    /\ taskToDelete = Null
    /\ deletingTaskId = Null
    /\ calls = <<>>
    /\ clock = 0
    /\ notice = "none"
    /\ tagLog = <<>>
    /\ dbSprints = [i \in {1} |-> SprintRow(NewSprint(1, 0, 1, 0))]
    /\ sprints = getSprints(dbSprints)
    /\ sprintFetches = {}
    /\ config = DefaultConfig
    /\ nowDate = 0
    /\ isCreateOpen = FALSE
    /\ newStartDate = InvalidDate
    /\ newEndDate = InvalidDate
    /\ nextSprintId = 1
    /\ PageIdle

\* what the handlers of the table leave alone
offPage == <<configured, taskToDelete, deletingTaskId, calls, clock, nextId,
             notice, tagLog, sprintState, viewState>>

\* handleNavClick(mode)
HandleNavClick(mode) ==
    /\ viewMode' = mode
    /\ UNCHANGED <<offPage, dbTasks, dbTags, tasks, searchQuery, allTasksPage,
                   allTasksStatus, allTasksPriority, allTasksTags, allTasksSprintId>>

\* the search box: setSearchQuery(e.target.value)
SetSearchQuery(query) ==
    /\ searchQuery' = query
    /\ UNCHANGED <<offPage, dbTasks, dbTags, tasks, viewMode, allTasksPage,
                   allTasksStatus, allTasksPriority, allTasksTags, allTasksSprintId>>

\* the status select of the toolbar
StatusSelect(value) ==
    /\ TableShown
    /\ allTasksStatus' = value
    /\ allTasksPage' = 1
    /\ UNCHANGED <<offPage, dbTasks, dbTags, tasks, viewMode, searchQuery,
                   allTasksPriority, allTasksTags, allTasksSprintId>>

\* the priority select of the toolbar
PrioritySelect(value) ==
    /\ TableShown
    /\ allTasksPriority' = value
    /\ allTasksPage' = 1
    /\ UNCHANGED <<offPage, dbTasks, dbTags, tasks, viewMode, searchQuery,
                   allTasksStatus, allTasksTags, allTasksSprintId>>

\* the options of the sprint select
SprintOptions ==
    {AllSprints, Unassigned} \cup {OfSprint(sprints[k].id) : k \in DOMAIN sprints}

\* the sprint select of the toolbar
SprintSelect(value) ==
    /\ TableShown
    /\ value \in SprintOptions
    /\ allTasksSprintId' = value
    /\ allTasksPage' = 1
    /\ UNCHANGED <<offPage, dbTasks, dbTags, tasks, viewMode, searchQuery,
                   allTasksStatus, allTasksPriority, allTasksTags>>

\* the tag select of the toolbar: its options are the tags not selected yet
TagSelect(val) ==
    /\ TableShown
    /\ val \in TagNames
    /\ ~Includes(allTasksTags, val)
    /\ allTasksTags' = Append(allTasksTags, val)
    /\ allTasksPage' = 1
    /\ UNCHANGED <<offPage, dbTasks, dbTags, tasks, viewMode, searchQuery,
                   allTasksStatus, allTasksPriority, allTasksSprintId>>

\* the X of a selected tag's chip: setAllTasksTags(allTasksTags.filter(...))
TagChipRemove(tag) ==
    /\ TableShown
    /\ Includes(allTasksTags, tag)
    /\ allTasksTags' = SelectSeq(allTasksTags, LAMBDA t : t # tag)
    /\ UNCHANGED <<offPage, dbTasks, dbTags, tasks, viewMode, searchQuery,
                   allTasksPage, allTasksStatus, allTasksPriority, allTasksSprintId>>

Max2(a, b) == IF a >= b THEN a ELSE b
Min2(a, b) == IF a <= b THEN a ELSE b

\* the previous-page button, disabled on page 1
PrevPage ==
    /\ TableShown
    /\ ~(allTasksPage = 1)
    /\ allTasksPage' = Max2(1, allTasksPage - 1)
    /\ UNCHANGED <<offPage, dbTasks, dbTags, tasks, viewMode, searchQuery,
                   allTasksStatus, allTasksPriority, allTasksTags, allTasksSprintId>>

\* the next-page button, disabled when allTasksPage >= totalPages
NextPage ==
    /\ TableShown
    /\ ~(allTasksPage >= totalPages)
    /\ allTasksPage' = Min2(totalPages, allTasksPage + 1)
    /\ UNCHANGED <<offPage, dbTasks, dbTags, tasks, viewMode, searchQuery,
                   allTasksStatus, allTasksPriority, allTasksTags, allTasksSprintId>>

\* onViewSprintTasks(sprint.id) of the dashboard and of the sprint page
ViewSprintTasks(k) ==
    /\ viewMode \in {"dashboard", "sprint"}
    /\ k \in DOMAIN sprints
    /\ allTasksSprintId' = OfSprint(sprints[k].id)
    /\ viewMode' = "all"
    /\ UNCHANGED <<offPage, dbTasks, dbTags, tasks, searchQuery, allTasksPage,
                   allTasksStatus, allTasksPriority, allTasksTags>>

\* the delete button of the i-th row on screen, the confirmation accepted,
\* deleteTask accepted by the store and the awaited fetchTasks arrived
TableDeleteTask(i) ==
    /\ TableShown
    /\ i \in DOMAIN displayedTasks
    /\ nextId - Cardinality(DOMAIN dbTasks) < MaxPageDeletes
    /\ LET r == deleteTask(configured, dbTasks, dbTags, displayedTasks[i].id,
                           FALSE, NoFailure)
       IN  /\ dbTasks' = r.db
           /\ dbTags' = r.rows
           /\ tasks' = getTasks(r.db)
    /\ UNCHANGED <<offPage, pageState>>

PageNext ==
    \/ \E mode \in NavModes : HandleNavClick(mode)
    \/ \E query \in SearchQueries : SetSearchQuery(query)
    \/ \E value \in {ALL, UNFINISHED} \cup TaskStatus : StatusSelect(value)
    \/ \E value \in {ALL} \cup Priority : PrioritySelect(value)
    \/ \E value \in SprintOptions : SprintSelect(value)
    \/ \E val \in TagNames : TagSelect(val)
    \/ \E tag \in Range(allTasksTags) : TagChipRemove(tag)
    \/ PrevPage
    \/ NextPage
    \/ \E k \in DOMAIN sprints : ViewSprintTasks(k)
    \/ \E i \in 1 .. ITEMS_PER_PAGE : TableDeleteTask(i)

SpecPage == PageInit /\ [][PageNext]_vars

(***************************************************************************)
(* SpecFilter: the filters of the all-tasks table and of the sprint-scoped *)
(* task list (TaskListView), over task lists drawn from a bounded set.     *)
(* The store holds the tasks and one sprint, and the App has fetched them. *)
(***************************************************************************)
MaxFilterTasks == 2    \* SpecFilter: tasks in the store

\* the filter settings of the all-tasks table as one record
TableSettings ==
    [status |-> allTasksStatus, priority |-> allTasksPriority,
     sprintId |-> allTasksSprintId, tags |-> allTasksTags]

\* renderAllTasksView's filter under the settings st
TableWith(list, st) ==
    SelectSeq(list, LAMBDA t : PassesTable(t, st.status, st.priority, st.sprintId, st.tags))

\* the settings st with the filter groups outside G at their 'ALL' / [] values
TableOnly(st, G) ==
    [status |-> IF "status" \in G THEN st.status ELSE ALL,
     priority |-> IF "priority" \in G THEN st.priority ELSE ALL,
     sprintId |-> IF "sprint" \in G THEN st.sprintId ELSE AllSprints,
     tags |-> IF "tags" \in G THEN st.tags ELSE <<>>]

TableGroups == {"status", "priority", "sprint", "tags"}

\* TaskListView.sprintTasks
sprintTasks(list, sprintId) ==
    IF sprintId = Null THEN <<>>
    ELSE SelectSeq(list, LAMBDA t : t.sprintId = sprintId)

\* the predicate of TaskListView.filteredTasks
PassesList(task, tagsSel, statusSel, prioritySel) ==
    /\ IF Len(tagsSel) > 0
       THEN \E i \in DOMAIN task.tags : Includes(tagsSel, task.tags[i])
       ELSE TRUE
    /\ ~(statusSel # NoSelection /\ task.status # statusSel)
    /\ ~(prioritySel # NoSelection /\ task.priority # prioritySel)

\* the selections of TaskListView as one record
ListSettings ==
    [sprintId |-> selectedSprintId, tags |-> selectedTags,
     status |-> selectedStatus, priority |-> selectedPriority]

\* TaskListView.filteredTasks under the selections sel
ListWith(list, sel) ==
    SelectSeq(sprintTasks(list, sel.sprintId),
              LAMBDA t : PassesList(t, sel.tags, sel.status, sel.priority))

\* the selections sel with the filter groups outside G cleared (the sprint stays)
ListOnly(sel, G) ==
    [sprintId |-> sel.sprintId,
     tags |-> IF "tags" \in G THEN sel.tags ELSE <<>>,
     status |-> IF "status" \in G THEN sel.status ELSE NoSelection,
     priority |-> IF "priority" \in G THEN sel.priority ELSE NoSelection]

ListGroups == {"status", "priority", "tags"}

\* a task saved through the task form
FilterTask(id, status, priority, sprintId, tags) ==
    [id |-> id, createdAt |-> id, status |-> status, completedAt |-> Null,
     tags |-> tags, sprintId |-> sprintId, title |-> FormTitle, priority |-> priority,
     dueDate |-> Null]

\* the tasks the form may have saved under the id `id`
FilterTasks(id) ==
    {FilterTask(id, status, priority, sprintId, tags) :
         status \in {TODO, DONE}, priority \in {Q1, Q2}, sprintId \in {Null, 1},
         tags \in {<<>>, <<<<TagLetters[1]>>>>, <<<<TagLetters[2]>>>>}}

\* the lists of up to MaxFilterTasks saved tasks
FilterLists ==
    UNION {{l \in [1 .. n -> UNION {FilterTasks(id) : id \in 1 .. n}] :
                \A i \in 1 .. n : l[i].id = i} : n \in 0 .. MaxFilterTasks}

RECURSIVE TagRowsOf(_)
\* table "tags" after the incrementTagUsage of the createTask of each task
TagRowsOf(list) ==
    IF list = <<>> THEN <<>>
    ELSE incrementTagUsage(TagRowsOf(Tail(list)), Head(list).tags, NoFailure).rows

\* the effect of TaskListView on [sprints]: the active sprint, else the first
DefaultSprintId(list) ==
    IF \E k \in DOMAIN list : list[k].status = ACTIVE
    THEN list[CHOOSE k \in DOMAIN list :
                  /\ list[k].status = ACTIVE
                  /\ \A j \in 1 .. k - 1 : list[j].status # ACTIVE].id
    ELSE IF Len(list) > 0 THEN list[1].id
    ELSE Null

FilterInit ==
    /\ configured = TRUE
    /\ \E l \in FilterLists :
           /\ dbTasks = [i \in DOMAIN l |-> InsertedRow(l[i], i)]
           /\ dbTags = TagRowsOf(l)
           /\ nextId = Len(l)
    /\ tasks = getTasks(dbTasks)
    /\ taskToDelete = Null
    /\ deletingTaskId = Null
    /\ calls = <<>>
    /\ clock = 0
    /\ notice = "none"
    /\ tagLog = <<>>
    /\ dbSprints = [i \in {1} |-> SprintRow(NewSprint(1, 0, 1, 0))]
    /\ sprints = getSprints(dbSprints)
    /\ sprintFetches = {}
    /\ config = DefaultConfig
    /\ nowDate = 0
    /\ isCreateOpen = FALSE
    /\ newStartDate = InvalidDate
    /\ newEndDate = InvalidDate
    /\ nextSprintId = 1
    /\ viewMode \in {"all", "task-list"}
    /\ searchQuery = <<>>
    /\ allTasksPage = 1
    /\ allTasksStatus = ALL
    /\ allTasksPriority = ALL
    /\ allTasksTags = <<>>
    /\ allTasksSprintId = AllSprints
    /\ selectedSprintId = IF viewMode = "task-list" THEN DefaultSprintId(sprints) ELSE Null
    /\ selectedTags = <<>>
    /\ selectedStatus = NoSelection
    /\ selectedPriority = NoSelection
    /\ isModalOpen = FALSE
    /\ editingTask = Null
    /\ title = <<>>
    /\ scanTimer = 0
    /\ scanTasks = <<>>
    /\ scanRuns = 0
    /\ workers = <<>>
    /\ overflowModalState = [day |-> 0, tasks |-> <<>>]

\* what the handlers of TaskListView leave alone
offList == <<configured, dbTasks, dbTags, tasks, taskToDelete, deletingTaskId,
             calls, clock, nextId, notice, tagLog, sprintState, viewMode,
             searchQuery, allTasksPage, allTasksStatus, allTasksPriority,
             allTasksTags, allTasksSprintId, modalState, scanState, workers, overflowModalState>>

ListShown == viewMode = "task-list"

\* TaskListView.uniqueTags (as a set)
uniqueTags ==
    UNION {Range(t.tags) : t \in Range(sprintTasks(tasks, selectedSprintId))}

\* handleSprintClick
HandleSprintClick(id) ==
    /\ ListShown
    /\ \E k \in DOMAIN sprints : sprints[k].id = id
    /\ selectedSprintId' = id
    /\ selectedTags' = <<>>
    /\ selectedStatus' = NoSelection
    /\ selectedPriority' = NoSelection
    /\ UNCHANGED offList

\* handleTagClick
HandleTagClick(tag) ==
    /\ ListShown
    /\ selectedSprintId # Null
    /\ tag \in uniqueTags
    /\ selectedTags' = IF Includes(selectedTags, tag)
                       THEN SelectSeq(selectedTags, LAMBDA t : t # tag)
                       ELSE Append(selectedTags, tag)
    /\ UNCHANGED <<offList, selectedSprintId, selectedStatus, selectedPriority>>

\* handleStatusClick
HandleStatusClick(status) ==
    /\ ListShown
    /\ selectedSprintId # Null
    /\ selectedStatus' = IF selectedStatus = status THEN NoSelection ELSE status
    /\ UNCHANGED <<offList, selectedSprintId, selectedTags, selectedPriority>>

\* handlePriorityClick
HandlePriorityClick(priority) ==
    /\ ListShown
    /\ selectedSprintId # Null
    /\ selectedPriority' = IF selectedPriority = priority THEN NoSelection ELSE priority
    /\ UNCHANGED <<offList, selectedSprintId, selectedTags, selectedStatus>>

\* the "清除" button of the filter section
ClearFilters ==
    /\ ListShown
    /\ selectedSprintId # Null
    /\ selectedTags' = <<>>
    /\ selectedStatus' = NoSelection
    /\ selectedPriority' = NoSelection
    /\ UNCHANGED <<offList, selectedSprintId>>

FilterNext ==
    \/ \E value \in {ALL, UNFINISHED} \cup TaskStatus : StatusSelect(value)
    \/ \E value \in {ALL} \cup Priority : PrioritySelect(value)
    \/ \E value \in SprintOptions : SprintSelect(value)
    \/ \E val \in TagNames : TagSelect(val)
    \/ \E tag \in Range(allTasksTags) : TagChipRemove(tag)
    \/ \E k \in DOMAIN sprints : HandleSprintClick(sprints[k].id)
    \/ \E tag \in uniqueTags : HandleTagClick(tag)
    \/ \E status \in TaskStatus : HandleStatusClick(status)
    \/ \E priority \in Priority : HandlePriorityClick(priority)
    \/ ClearFilters

SpecFilter == FilterInit /\ [][FilterNext]_vars

(***************************************************************************)
(* SpecInbox: the status toggle of one stored, fetched task, with or       *)
(* without a due date, its write and refresh (no failure), and the search  *)
(* box.                                                                    *)
(***************************************************************************)
\* the due dates a stored task may have
DueDates == {Null, TicksPerDay}

InboxInit ==
    /\ configured = TRUE
    /\ \E status \in TaskStatus, due \in DueDates :
           dbTasks = [i \in {1} |->
                          InsertedRow([NewTask(1, status, <<>>) EXCEPT !.dueDate = due], 1)]
    /\ dbTags = <<>>
    /\ tasks = getTasks(dbTasks)
    /\ taskToDelete = Null
    /\ deletingTaskId = Null
    /\ calls = <<>>
    /\ clock = 1
    /\ nextId = 1
    /\ notice = "none"
    /\ tagLog = <<>>
    /\ SprintIdle
    /\ PageIdle

InboxNext ==
    \/ \E i \in 1 .. MaxTasks : StatusToggle(i)
    \/ \E i \in 1 .. MaxCalls : UpdateWrite(i, FALSE, NoFailure)
    \/ \E i \in 1 .. MaxCalls : FetchRead(i)
    \/ \E i \in 1 .. MaxCalls : FetchDeliver(i)
    \/ \E query \in SearchQueries : SetSearchQuery(query)

SpecInbox == InboxInit /\ [][InboxNext]_vars

(***************************************************************************)
(* SpecForm: the task form (TaskModal) and handleSaveTask behind it, with  *)
(* the writes and refreshes of the saves (no failure).                     *)
(***************************************************************************)
\* what the user may leave in the title input
TitleInputs == {<<>>, <<SP>>, <<SP, "b">>}

\* what the handlers of the form leave alone
offForm == <<configured, dbTasks, dbTags, taskToDelete, deletingTaskId, clock,
             notice, tagLog, sprintState, viewMode, searchQuery, allTasksPage,
             allTasksStatus, allTasksPriority, allTasksTags, allTasksSprintId,
             selectedSprintId, selectedTags, selectedStatus, selectedPriority,
             scanState, workers, overflowModalState>>

\* openNewTaskModal, and the form's effect on [isOpen, initialTask]
OpenNewTaskModal ==
    /\ ~isModalOpen
    /\ editingTask' = Null
    /\ isModalOpen' = TRUE
    /\ title' = <<>>
    /\ UNCHANGED <<offForm, tasks, calls, nextId>>

\* openEditTaskModal(task) for the i-th task, and the form's effect
OpenEditTaskModal(i) ==
    /\ ~isModalOpen
    /\ i \in DOMAIN tasks
    /\ editingTask' = tasks[i].id
    /\ isModalOpen' = TRUE
    /\ title' = tasks[i].title
    /\ UNCHANGED <<offForm, tasks, calls, nextId>>

\* the title input: setTitle(e.target.value)
SetTitle(value) ==
    /\ isModalOpen
    /\ title' = value
    /\ UNCHANGED <<offForm, tasks, calls, nextId, isModalOpen, editingTask>>

\* variant of TitleAccepted that lets every title pass
TitleAccepted_Any(value) == value = value

\* handleSave: if (!title.trim()) return
TitleAccepted(value) == Trim(value) # <<>>

\* the save button: TaskModal.handleSave, and handleSaveTask up to its await,
\* with the tags picked in the form and the status the form opened with
ModalSave(tags) ==
    /\ isModalOpen
    /\ IF ~TitleAccepted(title) THEN UNCHANGED vars
       ELSE /\ CanStart
            /\ IF editingTask # Null
               THEN /\ \/ /\ InMemory(tasks, editingTask) = {}
                          /\ UNCHANGED <<tasks, calls, editingTask>>
                       \/ \E i \in DOMAIN tasks :
                              /\ tasks[i].id = editingTask
                              /\ \A j \in 1 .. i - 1 : tasks[j].id # editingTask
                              /\ LET updatedTask ==
                                         [MergedTask(tasks[i], tasks[i].status, tags)
                                              EXCEPT !.title = title]
                                 IN  /\ tasks' = MapReplace(tasks, updatedTask)
                                     /\ calls' = Append(calls,
                                            Call("update", "write", "ok", updatedTask,
                                                 tasks[i].status, <<>>))
                                     /\ editingTask' = Null
                    /\ UNCHANGED nextId
               ELSE /\ nextId < MaxTasks
                    /\ LET newTask == [NewTask(nextId + 1, TODO, tags)
                                           EXCEPT !.title = title]
                       IN  /\ nextId' = nextId + 1
                           /\ tasks' = <<newTask>> \o tasks
                           /\ calls' = Append(calls,
                                  Call("create", "write", "ok", newTask, TODO, <<>>))
                    /\ UNCHANGED editingTask
            /\ isModalOpen' = FALSE
            /\ UNCHANGED <<offForm, title>>

\* the X of the form: onClose
CloseModal ==
    /\ isModalOpen
    /\ isModalOpen' = FALSE
    /\ UNCHANGED <<offForm, tasks, calls, nextId, editingTask, title>>

FormInit == Init /\ configured

FormNext ==
    \/ OpenNewTaskModal
    \/ \E i \in 1 .. MaxTasks : OpenEditTaskModal(i)
    \/ \E value \in TitleInputs : SetTitle(value)
    \/ \E tags \in FormTagLists : ModalSave(tags)
    \/ CloseModal
    \/ \E i \in 1 .. MaxCalls : CreateWrite(i, FALSE, NoFailure)
    \/ \E i \in 1 .. MaxCalls : UpdateWrite(i, FALSE, NoFailure)
    \/ \E i \in 1 .. MaxCalls : FetchRead(i)
    \/ \E i \in 1 .. MaxCalls : FetchDeliver(i)

SpecForm == FormInit /\ [][FormNext]_vars

(***************************************************************************)
(* The due-task scan (src/App.tsx:131-152).  The effect depends on [tasks]: *)
(* after every render with a new `tasks` its cleanup calls clearInterval   *)
(* and it calls setInterval(checkDueTasks, 60000) again, with a            *)
(* checkDueTasks that closes over the new list.  The Notification a scan   *)
(* shows is no state of the App.                                           *)
(***************************************************************************)
ScanPeriod == TicksPerMinute    \* 60000 ms
MaxScans == 2       \* SpecScan: scans counted

\* what the scan steps leave alone
offScan == <<configured, dbTasks, dbTags, tasks, taskToDelete, deletingTaskId,
             calls, clock, nextId, tagLog, sprintState, viewMode, searchQuery,
             allTasksPage, allTasksStatus, allTasksPriority, allTasksTags,
             allTasksSprintId, selectedSprintId, selectedTags, selectedStatus,
             selectedPriority, modalState, workers, overflowModalState>>

\* the effect after a render whose `tasks` differs from the one it last ran
\* with: `return () => clearInterval(interval)`, then setInterval again
RunEffect ==
    /\ scanTasks # tasks
    /\ scanTasks' = tasks
    /\ scanTimer' = 0
    /\ notice' = "none"
    /\ UNCHANGED <<offScan, scanRuns>>

\* time passes and the installed interval is not yet due
ScanTick ==
    /\ scanTimer + 1 < ScanPeriod
    /\ scanTimer' = scanTimer + 1
    /\ notice' = "none"
    /\ UNCHANGED <<offScan, scanTasks, scanRuns>>

\* the interval is due: checkDueTasks reads the list it closes over, and
\* the interval starts over
CheckDueTasks ==
    /\ scanTimer + 1 = ScanPeriod
    /\ scanTimer' = 0
    /\ scanRuns' = IF scanRuns < MaxScans THEN scanRuns + 1 ELSE scanRuns
    /\ notice' = "none"
    /\ UNCHANGED <<offScan, scanTasks>>

\* the App at mount; the effect has run with the initial `tasks`, []
ScanInit == Init

\* the App where no call fails, and the clock of the interval
ScanNext ==
    \/ /\ nextId < MaxTasks
       /\ \E status \in TaskStatus : SaveCreate(status, <<>>)
    \/ \E i \in 1 .. MaxTasks : StatusToggle(i)
    \/ \E i \in 1 .. MaxCalls : CreateWrite(i, FALSE, NoFailure)
    \/ \E i \in 1 .. MaxCalls : UpdateWrite(i, FALSE, NoFailure)
    \/ \E i \in 1 .. MaxCalls : FetchRead(i)
    \/ \E i \in 1 .. MaxCalls : FetchDeliver(i)
    \/ RunEffect
    \/ ScanTick
    \/ CheckDueTasks

\* time passes, timers that are due fire, and React runs pending effects;
\* nothing obliges the user or the store to act
ScanFair ==
    /\ WF_vars(RunEffect)
    /\ WF_vars(ScanTick)
    /\ WF_vars(CheckDueTasks)

SpecScan == ScanInit /\ [][ScanNext]_vars /\ ScanFair

(***************************************************************************)
(* taskService.updateTask request by request                               *)
(* (src/services/taskService.ts:67-110, src/services/tagService.ts:81-177).*)
(* Each `await supabase...` is one step of a worker; between two steps of  *)
(* one worker the other workers may take theirs.  Worker w edits the task  *)
(* w, and all workers attach the tag or all detach it, so no tags row is   *)
(* deleted and inserted again and its name stands for its id.              *)
(***************************************************************************)
MaxRacers == 2      \* SpecRace: updateTask calls, one per edited task
MaxOthers == 1      \* SpecRace: further stored tasks holding the tag
NoRow == -1     \* `existing` of a select ... single() that found no row
RaceTag == <<TagLetters[1]>>

Racers == 1 .. MaxRacers

\* select('id, usage_count').eq('name', trimmedName).single()
SelectTag(rows, name) == IF HasRow(rows, name) THEN rows[name] ELSE NoRow

\* variant of IncrementWrite that adds one to the stored count in one request
IncrementWrite_Atomic(rows, name, existing) ==
    IF HasRow(rows, name) THEN PutRow(rows, name, rows[name] + 1)
    ELSE PutRow(rows, name, 1)

\* incrementTagUsage after its select: update({usage_count: existing.usage_count
\* + 1}).eq('id', existing.id), or insert({name, usage_count: 1}), which the
\* UNIQUE name refuses when a row exists by now (the error is not looked at)
IncrementWrite(rows, name, existing) ==
    IF existing # NoRow
    THEN IF HasRow(rows, name) THEN PutRow(rows, name, existing + 1) ELSE rows
    ELSE IF HasRow(rows, name) THEN rows ELSE PutRow(rows, name, 1)

\* decrementTagUsage after its select: delete or update, by the id it read
DecrementWrite(rows, name, existing) ==
    IF existing = NoRow \/ ~HasRow(rows, name) THEN rows
    ELSE LET newCount == IF existing - 1 > 0 THEN existing - 1 ELSE 0
         IN  IF newCount = 0 THEN DeleteRow(rows, name)
             ELSE PutRow(rows, name, newCount)

\* a call updateTask(task) before its first request
Worker(task) ==
    [pc |-> "old", task |-> task, incs |-> <<>>, decs |-> <<>>,
     existing |-> NoRow, stale |-> FALSE]

\* the tasks of the store: the tasks the workers edit, and `others` more that
\* hold the tag
RaceTasks(tags, others) ==
    [i \in 1 .. MaxRacers + others |->
        NewTask(i, TODO, IF i \in Racers THEN tags ELSE <<RaceTag>>)]

offRace == <<configured, tasks, taskToDelete, deletingTaskId, calls, clock, nextId,
             tagLog, sprintState, viewMode, searchQuery, allTasksPage,
             allTasksStatus, allTasksPriority, allTasksTags, allTasksSprintId,
             selectedSprintId, selectedTags, selectedStatus, selectedPriority,
             modalState, scanState, overflowModalState>>

RaceInit ==
    \E attach \in BOOLEAN, others \in 0 .. MaxOthers :
        LET before == IF attach THEN <<>> ELSE <<RaceTag>>
            list == RaceTasks(before, others)
        IN  /\ configured = TRUE
            /\ dbTasks = [i \in DOMAIN list |-> InsertedRow(list[i], 0)]
            /\ dbTags = TagRowsOf(list)
            /\ tasks = <<>>
            /\ taskToDelete = Null
            /\ deletingTaskId = Null
            /\ calls = <<>>
            /\ clock = 0
            /\ nextId = MaxRacers + others
            /\ notice = "none"
            /\ tagLog = <<>>
            /\ SprintIdle
            /\ PageIdle

\* handleSaveTask for the stored task w calls updateTask with the tag
\* attached when the task had none, and detached when it had it
StartUpdate(w) ==
    /\ w \notin DOMAIN workers
    /\ HasTask(dbTasks, w)
    /\ LET task == RowToTask(dbTasks[w])
           after == IF task.tags = <<>> THEN <<RaceTag>> ELSE <<>>
       IN  workers' = [v \in DOMAIN workers \cup {w} |->
                          IF v = w THEN Worker([task EXCEPT !.tags = after])
                          ELSE workers[v]]
    /\ notice' = "none"
    /\ UNCHANGED <<offRace, dbTasks, dbTags>>

\* select('tags').eq('id', task.id).single(); updateTagUsage works on these
ReadOldTags(w) ==
    /\ w \in DOMAIN workers
    /\ workers[w].pc = "old"
    /\ LET task == workers[w].task
           oldTags == IF HasTask(dbTasks, task.id) THEN dbTasks[task.id].tags ELSE <<>>
       IN  workers' = [workers EXCEPT ![w].pc = "row",
                                      ![w].incs = AddedTags(oldTags, task.tags),
                                      ![w].decs = RemovedTags(oldTags, task.tags)]
    /\ notice' = "none"
    /\ UNCHANGED <<offRace, dbTasks, dbTags>>

\* where a worker goes after a request: the next tag, or the end
AfterRequest(incs, decs) == IF incs = <<>> /\ decs = <<>> THEN "done" ELSE "select"

\* update({...}).eq('id', task.id)
UpdateRow(w) ==
    /\ w \in DOMAIN workers
    /\ workers[w].pc = "row"
    /\ LET task == workers[w].task
       IN  dbTasks' = [i \in DOMAIN dbTasks |->
                          IF i = task.id THEN UpdatedRow(dbTasks[i], task, clock)
                          ELSE dbTasks[i]]
    /\ workers' = [workers EXCEPT
                      ![w].pc = AfterRequest(workers[w].incs, workers[w].decs)]
    /\ notice' = "none"
    /\ UNCHANGED <<offRace, dbTags>>

\* the tag a worker is at: updateTagUsage increments, then decrements
TagAt(w) == IF workers[w].incs # <<>> THEN Head(workers[w].incs)
            ELSE Head(workers[w].decs)

\* the select of one iteration of incrementTagUsage / decrementTagUsage
ReadTag(w) ==
    /\ w \in DOMAIN workers
    /\ workers[w].pc = "select"
    /\ workers' = [workers EXCEPT ![w].pc = "write",
                                  ![w].existing = SelectTag(dbTags, Trim(TagAt(w)))]
    /\ notice' = "none"
    /\ UNCHANGED <<offRace, dbTasks, dbTags>>

\* the update, insert or delete of that iteration; `stale` marks the workers
\* whose select was answered before this write and whose write is still to come
WriteTag(w) ==
    /\ w \in DOMAIN workers
    /\ workers[w].pc = "write"
    /\ LET name == Trim(TagAt(w))
           inc == workers[w].incs # <<>>
           incs == IF inc THEN Tail(workers[w].incs) ELSE <<>>
           decs == IF inc THEN workers[w].decs ELSE Tail(workers[w].decs)
       IN  /\ dbTags' = IF inc THEN IncrementWrite(dbTags, name, workers[w].existing)
                        ELSE DecrementWrite(dbTags, name, workers[w].existing)
           /\ workers' = [v \in DOMAIN workers |->
                 IF v = w
                 THEN [workers[v] EXCEPT !.pc = AfterRequest(incs, decs),
                                         !.incs = incs, !.decs = decs]
                 ELSE IF workers[v].pc = "write" /\ Trim(TagAt(v)) = name
                      THEN [workers[v] EXCEPT !.stale = TRUE]
                      ELSE workers[v]]
    /\ notice' = "none"
    /\ UNCHANGED <<offRace, dbTasks>>

RaceNext ==
    \/ \E w \in Racers : StartUpdate(w)
    \/ \E w \in Racers : ReadOldTags(w)
    \/ \E w \in Racers : UpdateRow(w)
    \/ \E w \in Racers : ReadTag(w)
    \/ \E w \in Racers : WriteTag(w)

SpecRace == RaceInit /\ [][RaceNext]_vars

(***************************************************************************)
(* WeekView (src/unnamed/part_003:153-417): the tasks of one day column,   *)
(* grouped by getOverlappingTasks, and the overflow indicator of a group.  *)
(***************************************************************************)
MAX_VISIBLE_TASKS == 3
MaxWeekTasks == 4   \* SpecWeek: tasks in the list
WindowTicks == 2    \* the 60 minutes of a display window, a day having TicksPerDay
WeekDays == {1, 2}  \* the day columns looked at, as day numbers

\* getHours(taskTime) * 60 + getMinutes(taskTime)
TimeOfDay(t) == t % TicksPerDay

\* tasks.filter(t => t.status !== DONE && t.dueDate && isSameDay(..., day))
RECURSIVE DayTasks(_, _)
DayTasks(list, day) ==
    IF list = <<>> THEN <<>>
    ELSE LET t == Head(list)
             rest == DayTasks(Tail(list), day)
         IN  IF t.status # DONE /\ t.dueDate # Null
                /\ IsSameDay(t.dueDate, day * TicksPerDay)
             THEN <<t>> \o rest ELSE rest

\* "Check if tasks overlap": taskStart < groupEnd && taskEnd > groupStart
Overlaps(task, groupTask) ==
    LET taskStart == TimeOfDay(task.dueDate)
        taskEnd == taskStart + WindowTicks
        groupStart == TimeOfDay(groupTask.dueDate)
        groupEnd == groupStart + WindowTicks
    IN  taskStart < groupEnd /\ taskEnd > groupStart

\* the first group whose first task the task overlaps, 0: none
FirstGroup(groups, task) ==
    IF \E g \in DOMAIN groups : Overlaps(task, groups[g][1])
    THEN CHOOSE g \in DOMAIN groups :
             /\ Overlaps(task, groups[g][1])
             /\ \A h \in 1 .. g - 1 : ~Overlaps(task, groups[h][1])
    ELSE 0

\* getOverlappingTasks: dayTasks.forEach over the groups built so far
RECURSIVE GroupInto(_, _)
GroupInto(groups, dayTasks) ==
    IF dayTasks = <<>> THEN groups
    ELSE LET task == Head(dayTasks)
             g == FirstGroup(groups, task)
         IN  GroupInto(IF g = 0 THEN Append(groups, <<task>>)
                       ELSE [groups EXCEPT ![g] = Append(@, task)],
                       Tail(dayTasks))

getOverlappingTasks(dayTasks) == GroupInto(<<>>, dayTasks)

\* the groups of a day column
taskGroups(day) == getOverlappingTasks(DayTasks(tasks, day))

\* group.slice(0, MAX_VISIBLE_TASKS): the tasks of a group that are drawn
VisibleTasks(group) ==
    SubSeq(group, 1, IF Len(group) < MAX_VISIBLE_TASKS THEN Len(group)
                     ELSE MAX_VISIBLE_TASKS)

\* group.length > MAX_VISIBLE_TASKS: the group has its overflow indicator
HasOverflow(group) == Len(group) > MAX_VISIBLE_TASKS

NoOverflow == [day |-> 0, tasks |-> <<>>]

\* the due dates of the week's tasks: none, the times of the first day, and
\* the start of the second
WeekDueDates == {Null} \cup (TicksPerDay .. 2 * TicksPerDay)

WeekTask(i, status, due) == [NewTask(i, status, <<>>) EXCEPT !.dueDate = due]

WeekLists ==
    UNION {[1 .. n -> {TODO, DONE} \X WeekDueDates] : n \in 0 .. MaxWeekTasks}

\* the App with a fetched list, the week view open
WeekInit ==
    /\ \E f \in WeekLists :
           tasks = [i \in DOMAIN f |-> WeekTask(i, f[i][1], f[i][2])]
    /\ configured = TRUE
    /\ dbTasks = <<>>
    /\ dbTags = <<>>
    /\ taskToDelete = Null
    /\ deletingTaskId = Null
    /\ calls = <<>>
    /\ clock = 0
    /\ nextId = Len(tasks)
    /\ notice = "none"
    /\ tagLog = <<>>
    /\ SprintIdle
    /\ PageIdle

offWeek == <<configured, dbTasks, dbTags, tasks, taskToDelete, deletingTaskId,
             calls, clock, nextId, tagLog, sprintState, viewMode, searchQuery,
             allTasksPage, allTasksStatus, allTasksPriority, allTasksTags,
             allTasksSprintId, selectedSprintId, selectedTags, selectedStatus,
             selectedPriority, modalState, scanState, workers>>

\* the onClick of the overflow indicator of group g of a day column
OpenOverflow(day, g) ==
    /\ g \in DOMAIN taskGroups(day)
    /\ HasOverflow(taskGroups(day)[g])
    /\ overflowModalState' = [day |-> day, tasks |-> taskGroups(day)[g]]
    /\ notice' = "none"
    /\ UNCHANGED offWeek

\* the overflow list is closed: setOverflowModalState(null)
CloseOverflow ==
    /\ overflowModalState # NoOverflow
    /\ overflowModalState' = NoOverflow
    /\ notice' = "none"
    /\ UNCHANGED offWeek

WeekNext ==
    \/ \E day \in WeekDays, g \in 1 .. MaxWeekTasks : OpenOverflow(day, g)
    \/ CloseOverflow

SpecWeek == WeekInit /\ [][WeekNext]_vars

(***************************************************************************)
(* Claims                                                                  *)
(***************************************************************************)
CallId(i) == calls[i].task.id

\* the updateTask call of call i settles and the store accepts it
UpdateAccepted(i) ==
    \E budget \in Budgets : UpdateWrite(i, FALSE, budget)

\* C1 (edit isolation): when the updateTask call of a handleSaveTask edit
\* that leaves the status as it is (in memory and in the store) is applied,
\* the row's completed_at is what it was.
C1_EditIsolation ==
    [][\A i \in 1 .. MaxCalls :
           (/\ UpdateAccepted(i)
            /\ calls[i].kind = "update"
            /\ calls[i].task.status = calls[i].old
            /\ HasTask(dbTasks, CallId(i))
            /\ dbTasks[CallId(i)].status = calls[i].task.status)
           => dbTasks'[CallId(i)].completed_at = dbTasks[CallId(i)].completed_at]_vars

\* C2 (completion after a reset stamps now): when the updateTask call of a
\* status toggle takes a row from a status other than DONE, with completed_at
\* cleared, to DONE, the row's completed_at is the time of that call.
C2_ToggleStampsNow ==
    [][\A i \in 1 .. MaxCalls :
           (/\ UpdateAccepted(i)
            /\ calls[i].kind = "toggle"
            /\ HasTask(dbTasks, CallId(i))
            /\ dbTasks[CallId(i)].status # DONE
            /\ dbTasks[CallId(i)].completed_at = Null
            /\ dbTasks'[CallId(i)].status = DONE)
           => dbTasks'[CallId(i)].completed_at = clock']_vars

\* C3 (completion timestamp idempotence): an updateTask call that finds the
\* row DONE with completed_at set and keeps it DONE leaves completed_at as it is.
C3_DoneKeepsCompletedAt ==
    [][\A i \in 1 .. MaxCalls :
           (/\ UpdateAccepted(i)
            /\ HasTask(dbTasks, CallId(i))
            /\ dbTasks[CallId(i)].status = DONE
            /\ dbTasks[CallId(i)].completed_at # Null
            /\ calls[i].task.status = DONE)
           => dbTasks'[CallId(i)].completed_at = dbTasks[CallId(i)].completed_at]_vars

\* the updateTask call of call i has taken the stored row out of DONE
LeftDone(c) ==
    /\ c.kind \in {"update", "toggle"}
    /\ c.path = "ok"
    /\ c.pc \in {"fetch", "respond"}
    /\ c.old = DONE
    /\ c.task.status # DONE

\* C4 as claimed (completion clears on exit): an update that moves a row
\* from DONE to TODO or IN_PROGRESS stores completed_at = null, and when the
\* refresh that follows it arrives the in-memory task has completedAt = null.
C4_ClearsOnExit ==
    [][\A i \in 1 .. MaxCalls :
           /\ (/\ UpdateAccepted(i)
               /\ HasTask(dbTasks, CallId(i))
               /\ dbTasks[CallId(i)].status = DONE
               /\ calls[i].task.status # DONE)
              => dbTasks'[CallId(i)].completed_at = Null
           /\ (FetchDeliver(i) /\ LeftDone(calls[i]))
              => \A k \in InMemory(tasks', CallId(i)) : tasks'[k].completedAt = Null]_vars

\* C4 as amended: ... and when the refresh that follows it arrives, the
\* in-memory task has completedAt = null unless that refresh shows the task
\* DONE again (a later update completed it).
C4_ClearsOnExitUnlessRedone ==
    [][\A i \in 1 .. MaxCalls :
           /\ (/\ UpdateAccepted(i)
               /\ HasTask(dbTasks, CallId(i))
               /\ dbTasks[CallId(i)].status = DONE
               /\ calls[i].task.status # DONE)
              => dbTasks'[CallId(i)].completed_at = Null
           /\ (FetchDeliver(i) /\ LeftDone(calls[i]))
              => \A k \in InMemory(tasks', CallId(i)) :
                     tasks'[k].status # DONE => tasks'[k].completedAt = Null]_vars

\* the refresh of an update that took a row out of DONE is about to arrive
\* with completedAt = null, while the optimistic copy still shows a completion time
C4_Witness ==
    \E i \in DOMAIN calls :
        /\ LeftDone(calls[i])
        /\ calls[i].pc = "respond"
        /\ \E k \in InMemory(calls[i].snap, CallId(i)) :
               calls[i].snap[k].status # DONE /\ calls[i].snap[k].completedAt = Null
        /\ \E k \in InMemory(tasks, CallId(i)) : tasks[k].completedAt # Null

\* C5 (store invariant): every row of the tasks table has completed_at
\* non-null exactly when its status is DONE.
C5_CompletedIffDone ==
    \A id \in DOMAIN dbTasks :
        (dbTasks[id].completed_at # Null) <=> (dbTasks[id].status = DONE)

\* a row that was completed by an update (not at its creation) and a clock
\* that has moved on: rows have been through createTask and updateTask
C5_Witness ==
    \E id \in DOMAIN dbTasks :
        /\ dbTasks[id].status = DONE
        /\ dbTasks[id].completed_at > 1
        /\ clock > dbTasks[id].completed_at

AllTagNames == {<<TagLetters[k]>> : k \in DOMAIN TagLetters}

UsageCount(rows, name) == IF HasRow(rows, name) THEN rows[name] ELSE 0

TasksHolding(db, name) == {id \in DOMAIN db : Includes(db[id].tags, name)}

\* C6 (tag count conservation): with the handlers used one at a time and no
\* accounting failure, whenever no call is in flight the usage_count of every
\* tag (0 without a row) is the number of stored tasks whose tags contain it.
C6_TagCountConservation ==
    calls = <<>> =>
        \A name \in AllTagNames :
            UsageCount(dbTags, name) = Cardinality(TasksHolding(dbTasks, name))

\* C10 (revert on remote write failure): when the handling of a rejected
\* create, update or toggle has completed (the fetchTasks of its catch has
\* settled), the in-memory list is the store's list.
C10_RevertRestoresStore ==
    [][\A i \in 1 .. MaxCalls :
           ((FetchDeliver(i) \/ FetchFail(i)) /\ calls[i].path = "revert")
           => tasks' = getTasks(dbTasks')]_vars

TagU == <<"u">>
TagB == <<"b">>
TagI == <<"i">>

Pred(n) == IF n - 1 > 0 THEN n - 1 ELSE 0

\* C7 (an update touches only the difference): a call updateTagUsage(O, N)
\* increments each tag of N \ O once, decrements each tag of O \ N once, reads
\* and writes no row of a tag in both, and leaves every other count as it was;
\* editing [urgent, backend] to [backend, ui] with urgent:1, backend:1 gives
\* backend:1, ui:1 and no row for urgent.
C7_UpdateTouchesOnlyTheDifference ==
    tagLog.op = "update" =>
        LET O == Range(tagLog.old)
            N == Range(tagLog.new)
        IN  /\ Range(tagLog.incs) = N \ O
            /\ Len(tagLog.incs) = Cardinality(N \ O)
            /\ Range(tagLog.decs) = O \ N
            /\ Len(tagLog.decs) = Cardinality(O \ N)
            /\ tagLog.touched \cap (O \cap N) = {}
            /\ \A n \in AllTagNames :
                   UsageCount(dbTags, n) =
                       IF n \in N \ O THEN UsageCount(tagLog.before, n) + 1
                       ELSE IF n \in O \ N THEN Pred(UsageCount(tagLog.before, n))
                       ELSE UsageCount(tagLog.before, n)
            /\ (/\ tagLog.old = <<TagU, TagB>>
                /\ tagLog.new = <<TagB, TagI>>
                /\ tagLog.before = [n \in {TagU, TagB} |-> 1])
               => dbTags = [n \in {TagB, TagI} |-> 1]

\* the edit of [urgent, backend] to [backend, ui] has been accounted
C7_Witness ==
    /\ tagLog.op = "update"
    /\ tagLog.old = <<TagU, TagB>>
    /\ tagLog.new = <<TagB, TagI>>
    /\ tagLog.before = [n \in {TagU, TagB} |-> 1]
    /\ tagLog.incs = <<TagI>>
    /\ tagLog.decs = <<TagU>>

\* C8 (counts stay positive): from an empty tags table, every row has
\* usage_count >= 1: no count goes below 0 and a decrement that brings a count
\* to 0 deletes the row; decrementing a tag that has no row changes nothing.
C8_CountsStayPositive ==
    /\ \A n \in DOMAIN dbTags : dbTags[n] >= 1
    /\ tagLog.op = "decrement" =>
           \A n \in Range(tagLog.decs) :
               /\ UsageCount(tagLog.before, n) <= 1 => ~HasRow(dbTags, n)
               /\ UsageCount(dbTags, n) = Pred(UsageCount(tagLog.before, n))

\* one decrement call took a count from 1 to no row and met a tag without a row
C8_Witness ==
    /\ tagLog.op = "decrement"
    /\ \E n \in Range(tagLog.decs) : ~HasRow(tagLog.before, n)
    /\ \E n \in Range(tagLog.decs) :
           HasRow(tagLog.before, n) /\ tagLog.before[n] = 1 /\ ~HasRow(dbTags, n)
    /\ \E n \in DOMAIN dbTags : dbTags[n] = MaxCount

\* C9 (accounting failure): when the accounting call inside createTask,
\* updateTask or deleteTask throws, the task mutation is in the store, the
\* handler goes on as after a success (createTask: done; updateTask and
\* deleteTask: the refresh, not the catch), and the tags table holds what the
\* throwing call had written, nothing more.
C9_AccountingFailureTolerated ==
    [][\A i \in 1 .. MaxCalls, budget \in Budgets :
           /\ (/\ CreateWrite(i, FALSE, budget)
               /\ incrementTagUsage(dbTags, calls[i].task.tags, budget).threw)
              => /\ HasTask(dbTasks', CallId(i))
                 /\ dbTasks'[CallId(i)].tags = calls[i].task.tags
                 /\ calls' = RemoveAt(calls, i)
                 /\ dbTags' = incrementTagUsage(dbTags, calls[i].task.tags, budget).rows
           /\ (/\ UpdateWrite(i, FALSE, budget)
               /\ HasTask(dbTasks, CallId(i))
               /\ updateTagUsage(dbTags, dbTasks[CallId(i)].tags,
                                 calls[i].task.tags, budget).threw)
              => /\ dbTasks'[CallId(i)].tags = calls[i].task.tags
                 /\ dbTasks'[CallId(i)].status = calls[i].task.status
                 /\ calls'[i].pc = "fetch" /\ calls'[i].path = "ok"
                 /\ dbTags' = updateTagUsage(dbTags, dbTasks[CallId(i)].tags,
                                             calls[i].task.tags, budget).rows
           /\ (/\ DeleteWrite(i, FALSE, budget)
               /\ HasTask(dbTasks, CallId(i))
               /\ decrementTagUsage(dbTags, dbTasks[CallId(i)].tags, budget).threw)
              => /\ ~HasTask(dbTasks', CallId(i))
                 /\ calls'[i].pc = "fetch" /\ calls'[i].path = "ok"
                 /\ dbTags' = decrementTagUsage(dbTags, dbTasks[CallId(i)].tags,
                                                budget).rows]_vars

\* after the only taskService call so far, a createTask, the task is stored
\* with a tag that has no row (its accounting threw) and no catch is running
C9_Witness ==
    /\ clock = 1
    /\ \E id \in DOMAIN dbTasks : dbTasks[id].tags # <<>>
    /\ dbTags = <<>>
    /\ \A i \in DOMAIN calls : calls[i].path = "ok" /\ calls[i].kind = "mount"

\* the awaited taskService call of call i settles and the store rejects it
WriteRejected(i) ==
    \E budget \in Budgets :
        \/ CreateWrite(i, TRUE, budget)
        \/ UpdateWrite(i, TRUE, budget)
        \/ DeleteWrite(i, TRUE, budget)

\* C11 (remote write failures are user-visible): when the store rejects the
\* createTask, updateTask or deleteTask of a handler, the handler shows the
\* user a message (an alert), not only a console log.
C11_RejectionNotifiesUser ==
    [][\A i \in 1 .. MaxCalls : WriteRejected(i) => notice' # "none"]_vars

\* C12 (backend unavailable): while the store is not configured, a handler
\* step reaches no table (every taskService call fails with
\* SUPABASE_NOT_CONFIGURED first) and leaves the in-memory task list as it was
\* before the attempt.
C12_UnconfiguredLeavesMemory ==
    [][~configured => /\ dbTasks' = dbTasks
                      /\ dbTags' = dbTags
                      /\ tasks' = tasks]_vars

\* C13 (last-refresh-wins convergence): with nothing failing, whenever no
\* mutation and no fetch is in flight the in-memory task list is the store's
\* task list.
C13_QuiescentMemoryIsStore ==
    calls = <<>> => tasks = getTasks(dbTasks)

WeeksOf(cfg) == IF cfg.durationUnit = "week" THEN 1 ELSE 2

MinutesPerWeek == DaysPerWeek * MinutesPerDay

\* C14 (sprint window validity): when the create form opens with sprints
\* in the list, its start is the end of the first sprint of the list (the one
\* that starts last), its end is one week later for durationUnit 'week' and
\* two weeks later otherwise, and the start is before the end.
C14_WindowFollowsPriorSprint ==
    [][(OpenCreateModal /\ sprints # <<>>) =>
           /\ \A k \in DOMAIN sprints : sprints[k].startDate <= sprints[1].startDate
           /\ ParseMinute(newStartDate') = sprints[1].endDate
           /\ newEndDate' = newStartDate' + WeeksOf(config) * MinutesPerWeek
           /\ newStartDate' < newEndDate']_vars

\* the form is open on the window after the later of two stored sprints,
\* two weeks long
C14_Witness ==
    /\ isCreateOpen
    /\ Len(sprints) = 2
    /\ sprints[1].startDate > sprints[2].startDate
    /\ sprints[1].endDate # sprints[2].endDate
    /\ config.durationUnit = "2weeks"
    /\ ParseMinute(newStartDate) = sprints[1].endDate
    /\ newEndDate = newStartDate + 2 * MinutesPerWeek

\* C15 (first sprint window): when the create form opens with no sprint in
\* the list, its start is the next instant at or after now that falls on
\* config.startDay at config.startTime, and its end is one or two weeks later.
C15_WindowAtNextStartDay ==
    [][(OpenCreateModal /\ sprints = <<>>) =>
           LET start == ParseMinute(newStartDate')
           IN  /\ nowDate <= start
               /\ start < AddWeeks(nowDate, 1)
               /\ GetDay(start) = config.startDay
               /\ start = SetHours(start, config.startTime)
               /\ newEndDate' = newStartDate' + WeeksOf(config) * MinutesPerWeek]_vars

\* C16 (stored sprints are well-formed): every stored sprint, whatever the
\* user left in the create form, has startDate < endDate (a create request
\* with startDate >= endDate is rejected and stores nothing).
C16_StoredSprintStartsBeforeEnd ==
    \A id \in DOMAIN dbSprints : dbSprints[id].start_date < dbSprints[id].end_date

\* a status button of the sprint page is pressed
SomeStatusChange ==
    \E k \in 1 .. MaxSprints, reject \in BOOLEAN : SprintStatusChange(k, reject)

\* C17 (sprint lifecycle): a sprint is stored with status PLANNING; its stored
\* status changes only by a status action of the user, from PLANNING to ACTIVE
\* or from ACTIVE to COMPLETED (never out of COMPLETED, never by time passing).
C17_SprintLifecycle ==
    [][/\ \A id \in DOMAIN dbSprints' \ DOMAIN dbSprints :
              dbSprints'[id].status = PLANNING
       /\ \A id \in DOMAIN dbSprints' \cap DOMAIN dbSprints :
              dbSprints'[id].status # dbSprints[id].status =>
                  /\ SomeStatusChange
                  /\ <<dbSprints[id].status, dbSprints'[id].status>> \in
                         {<<PLANNING, ACTIVE>>, <<ACTIVE, COMPLETED>>}]_vars

\* a task whose sprintId names a sprint that has no stored record
Orphaned(t) == t.sprintId # Null /\ ~HasSprint(dbSprints, t.sprintId)

\* the all-tasks table with the sprint filter at ALL, the other filters as
\* they are
TableOfAllSprints ==
    TableResult(tasks, "all", searchQuery, allTasksStatus, allTasksPriority,
                AllSprints, allTasksTags)

\* C18 (deleting a sprint deletes only the sprint record): a handleDeleteSprint
\* step leaves the stored tasks, with every field, and the in-memory tasks as
\* they were; and every in-memory task whose sprint has no stored record is a
\* row of the all-tasks table when the sprint filter is ALL.
C18_DeleteSprintKeepsTasks ==
    /\ [][\A k \in 1 .. MaxSprints, reject \in BOOLEAN :
              SprintDelete(k, reject) => dbTasks' = dbTasks /\ tasks' = tasks]_vars
    /\ [](\A i \in DOMAIN tasks :
              Orphaned(tasks[i]) => Includes(TableOfAllSprints, tasks[i]))

\* the sprint of a stored task is deleted and the refresh has arrived
C18_Witness ==
    /\ \E id \in DOMAIN dbTasks :
           /\ dbTasks[id].sprint_id # Null
           /\ ~HasSprint(dbSprints, dbTasks[id].sprint_id)
    /\ sprints = <<>>
    /\ sprintFetches = {}
    /\ \E i \in DOMAIN tasks :
           Orphaned(tasks[i]) /\ Includes(TableOfAllSprints, tasks[i])

\* C19 (pagination clamp): whenever the table is on screen, the page index is
\* at least 1 and at most max(1, ceil(count / 10)), count being the number of
\* tasks that match the current search and filters.
C19_PageWithinRange ==
    TableShown =>
        /\ 1 <= allTasksPage
        /\ allTasksPage <= Max2(1, Ceil(Len(tableResult), ITEMS_PER_PAGE))

\* C20 (a filter change resets the page): a step that changes the status,
\* priority, sprint or tag filter of the all-tasks table leaves the page index
\* at 1.
C20_FilterChangeResetsPage ==
    [][(\/ allTasksStatus' # allTasksStatus
        \/ allTasksPriority' # allTasksPriority
        \/ allTasksSprintId' # allTasksSprintId
        \/ allTasksTags' # allTasksTags)
       => allTasksPage' = 1]_vars

\* the filter groups G1 then G2 of the table give what G2 then G1 give and
\* what the filter with both gives, and no task that G1 alone rejects
TableComposes(G1, G2) ==
    LET st == TableSettings
        both == TableWith(tasks, TableOnly(st, G1 \cup G2))
        first == TableWith(tasks, TableOnly(st, G1))
    IN  /\ TableWith(first, TableOnly(st, G2)) = both
        /\ TableWith(TableWith(tasks, TableOnly(st, G2)), TableOnly(st, G1)) = both
        /\ Range(both) \subseteq Range(first)

\* the same for the sprint-scoped list
ListComposes(G1, G2) ==
    LET sel == ListSettings
        both == ListWith(tasks, ListOnly(sel, G1 \cup G2))
        first == ListWith(tasks, ListOnly(sel, G1))
    IN  /\ ListWith(first, ListOnly(sel, G2)) = both
        /\ ListWith(ListWith(tasks, ListOnly(sel, G2)), ListOnly(sel, G1)) = both
        /\ Range(both) \subseteq Range(first)

\* C21 (filter composition): for the task list and the filter settings of
\* every state, and every two filter groups of the all-tasks table and of the
\* sprint-scoped list, applying one group and then the other gives the same
\* tasks in either order, namely those the filter with both groups gives, and
\* these are among the tasks the first group alone gives.
C21_FiltersCompose ==
    /\ \A g1 \in TableGroups, g2 \in TableGroups : TableComposes({g1}, {g2})
    /\ \A g1 \in ListGroups, g2 \in ListGroups : ListComposes({g1}, {g2})

\* two filter groups of the table are set and each rejects a task the other
\* lets pass; the same in the list
C21_Witness ==
    \/ /\ viewMode = "all"
       /\ allTasksStatus # ALL /\ allTasksTags # <<>>
       /\ LET st == TableSettings
              a == Range(TableWith(tasks, TableOnly(st, {"status"})))
              b == Range(TableWith(tasks, TableOnly(st, {"tags"})))
          IN  a \ b # {} /\ b \ a # {}
    \/ /\ viewMode = "task-list"
       /\ selectedStatus # NoSelection /\ selectedPriority # NoSelection
       /\ LET sel == ListSettings
              a == Range(ListWith(tasks, ListOnly(sel, {"status"})))
              b == Range(ListWith(tasks, ListOnly(sel, {"priority"})))
          IN  a \ b # {} /\ b \ a # {}

\* the inbox view: filteredTasks under viewMode 'inbox'
Inbox == filteredTasks(tasks, "inbox", searchQuery)

\* the task is among those the search filter lets pass
MatchesSearch(t) == Includes(SearchFiltered(tasks, searchQuery), t)

OtherFields(t) == <<t.id, t.createdAt, t.tags, t.sprintId, t.title, t.priority, t.dueDate>>

\* the columns of a row other than status and completed_at
OtherColumns(row) ==
    <<row.id, row.created_at, row.tags, row.sprint_id, row.title, row.priority,
      row.due_date>>

\* C23 (cycle button): a toggle takes the in-memory task from its status to
\* the next of TODO, IN_PROGRESS, DONE, TODO and changes no other field but
\* completedAt; and when the toggle's updateTask is applied, the stored task
\* goes to the next status of the cycle (so that three applied toggles return
\* it to where it was) and no column other than status and completed_at
\* changes.
C23_ToggleCycles ==
    [][/\ \A i \in 1 .. MaxTasks :
              StatusToggle(i) =>
                  /\ tasks'[i].status = NextStatus(tasks[i].status)
                  /\ OtherFields(tasks'[i]) = OtherFields(tasks[i])
       /\ \A c \in 1 .. MaxCalls :
              (/\ UpdateAccepted(c)
               /\ calls[c].kind = "toggle"
               /\ HasTask(dbTasks, CallId(c)))
              => /\ dbTasks'[CallId(c)].status = NextStatus(dbTasks[CallId(c)].status)
                 /\ OtherColumns(dbTasks'[CallId(c)]) = OtherColumns(dbTasks[CallId(c)])]_vars

\* the createTask call of call i settles and the store accepts it
CreateAccepted(i) == CreateWrite(i, FALSE, NoFailure)

NoDuplicates(list) ==
    \A a, b \in DOMAIN list : list[a] = list[b] => a = b

\* C24 (task construction): when the createTask of a handleSaveTask create is
\* applied, the id had no row before, the new row has completed_at = now if
\* the status is DONE and null otherwise, a duplicate-free tag list and the
\* created task's createdAt and sprintId, and the task of that id in the
\* in-memory list has the same status, createdAt, completedAt, tags and
\* sprintId as the row.
C24_CreatedTaskAgrees ==
    [][\A c \in 1 .. MaxCalls :
           (CreateAccepted(c) /\ calls[c].kind = "create")
           => LET id == CallId(c)
                  row == dbTasks'[id]
              IN  /\ ~HasTask(dbTasks, id)
                  /\ HasTask(dbTasks', id)
                  /\ row.completed_at = IF row.status = DONE THEN clock' ELSE Null
                  /\ NoDuplicates(row.tags)
                  /\ row.created_at = calls[c].task.createdAt
                  /\ row.sprint_id = calls[c].task.sprintId
                  /\ \A k \in InMemory(tasks', id) :
                         /\ tasks'[k].status = row.status
                         /\ tasks'[k].createdAt = row.created_at
                         /\ tasks'[k].completedAt = row.completed_at
                         /\ tasks'[k].tags = row.tags
                         /\ tasks'[k].sprintId = row.sprint_id]_vars

\* a title that is empty or only whitespace
Blank(value) == Trim(value) = <<>>

\* C25 (blank titles are rejected): a step of the task form taken while its
\* title is empty or only whitespace changes neither the in-memory task list
\* nor the store nor a tag counter and starts no call; and every task, in
\* memory and in the store, has a title that is not blank.
C25_BlankTitleRejected ==
    /\ [][\A tags \in FormTagLists :
              (ModalSave(tags) /\ Blank(title))
              => UNCHANGED <<tasks, dbTasks, dbTags, calls>>]_vars
    /\ [](/\ \A i \in DOMAIN tasks : ~Blank(tasks[i].title)
          /\ \A id \in DOMAIN dbTasks : ~Blank(dbTasks[id].title))

\* the form is open with a blank title after a task was saved and stored
\* with a title it got from the form
C25_Witness ==
    /\ isModalOpen
    /\ title # <<>> /\ Blank(title)
    /\ \E id \in DOMAIN dbTasks : dbTasks[id].title = <<SP, "b">>
    /\ \E name \in DOMAIN dbTags : dbTags[name] > 0

\* a step that restarts the interval before it was due
IntervalRestarted == scanTimer' < scanTimer /\ scanTimer + 1 < ScanPeriod

\* C26: the due-task scan runs every minute whatever happens to the task
\* list: no step sets the interval back before it fired, a scan eventually
\* runs, and a scan leaves the in-memory list as it is
C26_ScanIndependent ==
    /\ [][~IntervalRestarted]_vars
    /\ [][CheckDueTasks => tasks' = tasks]_vars
    /\ <>(scanRuns > 0)

RaceDone == DOMAIN workers = Racers /\ \A w \in Racers : workers[w].pc = "done"

Holders == Cardinality({id \in DOMAIN dbTasks : Includes(dbTasks[id].tags, RaceTag)})

StoredCount == IF HasRow(dbTags, RaceTag) THEN dbTags[RaceTag] ELSE 0

\* C27: tag counters are best-effort under concurrency: when the updateTask
\* calls that attach (or detach) one tag have all finished, the usage_count
\* of the tag differs from the number of stored tasks holding it exactly
\* when the select of some call was answered before the write of another
\* and its own write came after it (a lost update)
C27_LostUpdate ==
    RaceDone => (StoredCount # Holders <=> \E w \in DOMAIN workers : workers[w].stale)

\* both calls are over and the counter has lost an update
C27_Witness ==
    /\ RaceDone
    /\ StoredCount # Holders
    /\ \E w \in DOMAIN workers : workers[w].stale

\* the groups of a day column that hold the task
GroupsOf(day, id) ==
    {g \in DOMAIN taskGroups(day) :
        \E k \in DOMAIN taskGroups(day)[g] : taskGroups(day)[g][k].id = id}

\* the one-hour display windows of two tasks intersect
WindowsIntersect(a, b) ==
    /\ TimeOfDay(a.dueDate) < TimeOfDay(b.dueDate) + WindowTicks
    /\ TimeOfDay(b.dueDate) < TimeOfDay(a.dueDate) + WindowTicks

\* C28: week-calendar overlap layout: of the non-done tasks due on one day
\* every task is in exactly one group, two tasks whose one-hour windows
\* intersect are in the same group, at most 3 tasks of a group are drawn,
\* and the overflow indicator of a group of more than 3 opens the whole group
C28_OverlapLayout ==
    /\ [](\A day \in WeekDays :
            LET dayTasks == DayTasks(tasks, day)
            IN  /\ \A i \in DOMAIN dayTasks :
                       Cardinality(GroupsOf(day, dayTasks[i].id)) = 1
                /\ \A i, j \in DOMAIN dayTasks :
                       WindowsIntersect(dayTasks[i], dayTasks[j])
                       => GroupsOf(day, dayTasks[i].id) = GroupsOf(day, dayTasks[j].id)
                /\ \A g \in DOMAIN taskGroups(day) :
                       Len(VisibleTasks(taskGroups(day)[g])) <= 3)
    /\ [][\A day \in WeekDays, g \in 1 .. MaxWeekTasks :
              OpenOverflow(day, g)
              => /\ Len(taskGroups(day)[g]) > 3
                 /\ overflowModalState'.tasks = taskGroups(day)[g]]_vars

\* C29: in every state of the in-memory list, the optimistic ones included,
\* a task has completedAt set exactly when its status is DONE
C29_CompletedAtIffDone ==
    \A i \in DOMAIN tasks : (tasks[i].completedAt # Null) <=> (tasks[i].status = DONE)

\* a confirmDeleteTask is in flight
Deleting == \E i \in DOMAIN calls : calls[i].kind = "delete"

\* C30: deletion is a two-step protocol that is not optimistic: a row leaves
\* the store only in a confirmDeleteTask for the id requestDeleteTask set;
\* the steps of the protocol before the refresh leave the in-memory list
\* alone; a rejected delete leaves list and store as they are and the
\* confirmation open; and deletingTaskId is null when no confirmDeleteTask
\* is in flight
C30_TwoStepDelete ==
    /\ [][\A id \in DOMAIN dbTasks :
              id \notin DOMAIN dbTasks'
              => taskToDelete = id /\ deletingTaskId = id /\ Deleting]_vars
    /\ [][(deletingTaskId' # deletingTaskId /\ deletingTaskId' # Null)
          => (deletingTaskId' = taskToDelete /\ taskToDelete' = taskToDelete)]_vars
    /\ [][(\/ \E i \in 1 .. MaxTasks : RequestDelete(i)
           \/ CancelDelete
           \/ ConfirmDelete
           \/ \E i \in 1 .. MaxCalls, reject \in BOOLEAN, budget \in Budgets :
                  DeleteWrite(i, reject, budget))
          => tasks' = tasks]_vars
    /\ [][\A i \in 1 .. MaxCalls, budget \in Budgets :
              DeleteWrite(i, TRUE, budget)
              => /\ tasks' = tasks /\ dbTasks' = dbTasks
                 /\ taskToDelete' = taskToDelete /\ taskToDelete # Null
                 /\ deletingTaskId' = Null]_vars
    /\ [](~Deleting => deletingTaskId = Null)

\* the store has rejected a confirmed delete: the task is still listed and
\* stored, the confirmation is open and nothing is being deleted
C30_Witness ==
    /\ notice = "delete_failed"
    /\ taskToDelete # Null
    /\ deletingTaskId = Null
    /\ HasTask(dbTasks, taskToDelete)
    /\ InMemory(tasks, taskToDelete) # {}

====
